---- MODULE Spec2Model ----
(***************************************************************************)
(* The process store of hearth-core (crates/hearth-core/src/process/       *)
(* store.rs): a slab of reference-counted process entries, each with an    *)
(* alive flag and a list of linked objects, and the signals (Kill, Unlink, *)
(* Message) the store hands to the entries.                                *)
(*                                                                         *)
(* Every store method is one action.  The methods are written as operators *)
(* from a store value to a store value, so that a method that calls        *)
(* another one (kill -> send_signal -> Signal::free -> inc_ref, dec_ref -> *)
(* dec_ref) is the composition the source performs.  A store value is a    *)
(* record of the variables below plus the trace of the callbacks and       *)
(* reference-count calls made since the method was entered.                *)
(*                                                                         *)
(* The payload bytes of a Message are never read by the store and are left *)
(* out; a Capability is represented by the handle it owns (its permission  *)
(* flags are not read by the store either).                                *)
(*                                                                         *)
(* Around the store: the Registry of services (process/registry.rs), whose *)
(* capabilities are a handle with its flags; the operations of a           *)
(* Capability that test its permission bits; and the export and import     *)
(* tables of a connection between two peers.  Each has a specification of  *)
(* its own (SpecRegistry, SpecCapability, SpecConnection) next to those of *)
(* the store (Spec, SpecOwn).                                              *)
(***************************************************************************)
EXTENDS Integers, Sequences, FiniteSets, TLC

\* Number of keys the slab hands out in a run.
MaxHandles == 2
\* Largest reference count a client lets an entry reach.
MaxRef == 3
\* Largest number of signals left unread in one mailbox.
MaxMail == 1
\* Largest number of capabilities carried by one message.
MaxCaps == 1
\* Number of service names the clients of the registry use.
MaxNames == 2
\* Number of processes of its own a peer of a connection starts with.
MaxProcs == 2
\* Largest number of frames a peer sends down a connection.
MaxFrames == 3

Handles == 0 .. (MaxHandles - 1)

\* A subject value for the signals that carry none.
NoHandle == MaxHandles

\* The service names, HashMap keys of Registry.services.
Names == 1 .. MaxNames

\* The permission bits of a capability that its operations test.
Perms == {"send", "kill"}

Flags == SUBSET Perms

\* Capability::new(handle, flags)
Capability(handle, flags) == [handle |-> handle, flags |-> flags]

\* Option<Capability>::None
NoCap == [handle |-> NoHandle, flags |-> {}]

VARIABLES
    entries,    \* ProcessStore.entries: the keys of the occupied slab slots
    is_alive,   \* ProcessWrapper.is_alive, per key
    ref_count,  \* ProcessWrapper.ref_count, per key
    linked,     \* ProcessWrapper.linked, per key (a Vec: a sequence)
    open,       \* MockProcessEntry: whether the mailbox receiver still exists
    mailbox,    \* MockProcessEntry: the signals sent down mailbox_tx, unread
    next_key,   \* the number of keys handed out so far
    held,       \* per key, the owning references the clients hold
    panicked,   \* a method has panicked ("invalid handle")
    services,   \* Registry.services: per name, the capability or NoCap
    dropped,    \* the Registry has been dropped
    ret,        \* the Option<Capability> the last Registry method returned
    inserted,   \* per name, the capability inserted last and not removed
    peers,      \* per peer of a connection, its tables, capabilities, inbox
    arrived,    \* what the frame received last carried and resolved to
    pc,         \* per peer, where its accept or connect task stands
    roots,      \* per peer, the calls of export_root its task has made
    connection, \* the tables of the connection that shares the store
    builder,    \* the RuntimeBuilder, and the hooks of plugins that run
    run,        \* where RuntimeBuilder::run stands, and its locals
    tasks,      \* the tasks the service runners spawned, and what they did
    called,     \* the method of the builder called last, the builder before
    converted,  \* the conversion of a ProcessId made last
    lump_abi,   \* the LumpAbi of a guest, and the call it served last
    race,       \* the threads that call the store at once, and its locks
    last,       \* the method called last and its arguments
    before,     \* the entries as they were when that method was called
    trace       \* the callbacks and reference-count calls of that method

vars == <<entries, is_alive, ref_count, linked, open, mailbox, next_key,
          held, panicked, services, dropped, ret, inserted, peers, arrived,
          pc, roots, connection, builder, run, tasks, called, converted,
          lump_abi, race, last, before, trace>>

----------------------------------------------------------------------------
(* Signals *)

SigKill == [kind |-> "Kill", subject |-> NoHandle, caps |-> <<>>, data |-> 0]

SigUnlink(subject) ==
    [kind |-> "Unlink", subject |-> subject, caps |-> <<>>, data |-> 0]

SigMessage(caps) ==
    [kind |-> "Message", subject |-> NoHandle, caps |-> caps, data |-> 0]

\* A message with payload data and no capabilities.
SigData(data) == [SigMessage(<<>>) EXCEPT !.data = data]

NoSignal == [kind |-> "None", subject |-> NoHandle, caps |-> <<>>, data |-> 0]

\* One entry of the trace: a callback of an entry or a call into the store,
\* the handle and the signal it was given, and whether it was taken (for a
\* reference-count call: whether the handle was valid).
Event(ev, h, sig, ok) == [ev |-> ev, h |-> h, sig |-> sig, ok |-> ok]

Log(S, e) == [S EXCEPT !.trace = Append(@, e)]

\* The number of places of sequence s that hold x.
Count(s, x) == Cardinality({i \in DOMAIN s : s[i] = x})

\* No value occurs twice in sequence s.
NoDuplicates(s) == \A i, j \in DOMAIN s : s[i] = s[j] => i = j

\* Sequences over set T of length at most n.
SeqUpTo(T, n) == UNION {[1 .. k -> T] : k \in 0 .. n}

----------------------------------------------------------------------------
(* The store value the methods work on *)

Store ==
    [entries |-> entries, is_alive |-> is_alive, ref_count |-> ref_count,
     linked |-> linked, open |-> open, mailbox |-> mailbox,
     next_key |-> next_key, panicked |-> panicked, trace |-> <<>>]

\* self.entries.get(handle).expect("invalid handle")
Get(S, handle) == handle \in S.entries

Panic(S) == [S EXCEPT !.panicked = TRUE]

\* AtomicUsize::fetch_add / fetch_sub wrap.  usize::MAX is beyond TLC's
\* integers; the count that 0 - 1 wraps to is written UsizeMax.
UsizeMax == 2147483647

FetchAdd(n) == IF n = UsizeMax THEN 0 ELSE n + 1

FetchSub(n) == IF n = 0 THEN UsizeMax ELSE n - 1

----------------------------------------------------------------------------
(* ProcessStoreTrait for ProcessStore *)

inc_ref(S, handle) ==
    IF S.panicked THEN S
    ELSE LET S0 == Log(S, Event("inc_ref", handle, NoSignal, Get(S, handle)))
         IN  IF ~Get(S, handle) THEN Panic(S0)
             ELSE [S0 EXCEPT !.ref_count[handle] = FetchAdd(@)]

\* self.entries.remove(handle): the slot is vacated, its wrapper dropped.
Remove(S, handle) ==
    [S EXCEPT !.entries = @ \ {handle},
              !.is_alive[handle] = FALSE,
              !.ref_count[handle] = 0,
              !.linked[handle] = <<>>]

RECURSIVE dec_ref(_, _)
RECURSIVE DecRefEach(_, _)

\* for link in process.linked.lock().iter() { self.dec_ref(*link); }
DecRefEach(S, hs) ==
    IF hs = <<>> THEN S
    ELSE DecRefEach(dec_ref(S, Head(hs)), Tail(hs))

\* Fault: a dec_ref that forgets self.entries.remove(handle).
dec_ref_no_remove(S, handle) ==
    IF S.panicked THEN S
    ELSE LET S0 == Log(S, Event("dec_ref", handle, NoSignal, Get(S, handle)))
         IN  IF ~Get(S, handle) THEN Panic(S0)
             ELSE LET prev == S0.ref_count[handle]
                      S1 == [S0 EXCEPT !.ref_count[handle] = FetchSub(prev)]
                  IN  IF prev = 1
                      THEN DecRefEach(Log(S1, Event("on_remove", handle,
                                                    NoSignal, TRUE)),
                                      S1.linked[handle])
                      ELSE S1

dec_ref(S, handle) ==
    IF S.panicked THEN S
    ELSE LET S0 == Log(S, Event("dec_ref", handle, NoSignal, Get(S, handle)))
         IN  IF ~Get(S, handle) THEN Panic(S0)
             ELSE LET prev == S0.ref_count[handle]
                      S1 == [S0 EXCEPT !.ref_count[handle] = FetchSub(prev)]
                  IN  IF prev = 1
                      THEN LET S2 == Log(S1, Event("on_remove", handle,
                                                   NoSignal, TRUE))
                               S3 == DecRefEach(S2, S2.linked[handle])
                           IN  IF S3.panicked THEN S3 ELSE Remove(S3, handle)
                      ELSE S1

\* Capability::free(store): dec_ref of the handle the capability owns.
CapabilityFree(S, cap) ==
    IF S.panicked THEN S
    ELSE dec_ref(Log(S, Event("cap_free", cap, NoSignal, TRUE)), cap)

\* Fault: a Message::free that drops the capabilities without freeing them.
MessageFree_forget(S, caps) == S

RECURSIVE MessageFree(_, _)

\* Message::free: for cap in self.caps { cap.free(store); }
MessageFree(S, caps) ==
    IF caps = <<>> THEN S
    ELSE MessageFree(CapabilityFree(S, Head(caps)), Tail(caps))

\* Capability::clone(store): inc_ref of the handle, for the copy to own.
CapabilityClone(S, cap) ==
    IF S.panicked THEN S
    ELSE inc_ref(Log(S, Event("cap_clone", cap, NoSignal, TRUE)), cap)

RECURSIVE MessageClone(_, _)

\* Message::clone: caps.iter().map(|cap| cap.clone(store)).collect(); the
\* copy carries the same handles.
MessageClone(S, caps) ==
    IF caps = <<>> THEN S
    ELSE MessageClone(CapabilityClone(S, Head(caps)), Tail(caps))

\* Signal::clone; the copy is equal to the signal.
SignalClone(S, signal) ==
    LET S1 == Log(S, Event("clone", NoHandle, signal, TRUE))
    IN  IF S.panicked THEN S
        ELSE IF signal.kind = "Kill" THEN S1
        ELSE IF signal.kind = "Unlink" THEN inc_ref(S1, signal.subject)
        ELSE MessageClone(S1, signal.caps)

\* Signal::free
SignalFree(S, signal) ==
    LET S1 == Log(S, Event("free", NoHandle, signal, TRUE))
    IN  IF S.panicked THEN S
        ELSE IF signal.kind = "Kill" THEN S1
        ELSE IF signal.kind = "Unlink" THEN inc_ref(S1, signal.subject)
        ELSE MessageFree(S1, signal.caps)

\* MockProcessEntry::on_signal: mailbox_tx.send(signal).err().map(|err| err.0)
\* returns None when the signal went into the mailbox.
OnSignalAccepts(S, handle) == S.open[handle]

on_signal(S, handle, signal) ==
    IF OnSignalAccepts(S, handle)
    THEN Log([S EXCEPT !.mailbox[handle] = Append(@, signal)],
             Event("on_signal", handle, signal, TRUE))
    ELSE Log(S, Event("on_signal", handle, signal, FALSE))

\* Fault: a send_signal that does not test is_alive.
send_signal_to_dead(S, handle, signal) ==
    IF S.panicked THEN S
    ELSE IF ~Get(S, handle) THEN Panic(S)
    ELSE IF OnSignalAccepts(S, handle) THEN on_signal(S, handle, signal)
    ELSE SignalFree(on_signal(S, handle, signal), signal)

\* Fault: a send_signal that drops the signal on_signal returns.
send_signal_no_free(S, handle, signal) ==
    IF S.panicked THEN S
    ELSE IF ~Get(S, handle) THEN Panic(S)
    ELSE IF ~S.is_alive[handle] THEN SignalFree(S, signal)
    ELSE on_signal(S, handle, signal)

\* ProcessStore::send_signal
send_signal(S, handle, signal) ==
    IF S.panicked THEN S
    ELSE IF ~Get(S, handle) THEN Panic(S)
    ELSE IF ~S.is_alive[handle] THEN SignalFree(S, signal)
    ELSE IF OnSignalAccepts(S, handle) THEN on_signal(S, handle, signal)
    ELSE SignalFree(on_signal(S, handle, signal), signal)

\* ProcessStore::send
send(S, handle, caps) == send_signal(S, handle, SigMessage(caps))

RECURSIVE SendUnlinks(_, _, _)

\* for link in entry.linked.lock().drain(..) { self.send_signal(link, ...) }
SendUnlinks(S, links, subject) ==
    IF links = <<>> THEN S
    ELSE SendUnlinks(send_signal(S, Head(links), SigUnlink(subject)),
                     Tail(links), subject)

\* Fault: a kill that empties the link list before it walks it.
kill_clear_first(S, handle) ==
    IF S.panicked THEN S
    ELSE IF ~Get(S, handle) THEN Panic(S)
    ELSE IF S.is_alive[handle]
         THEN LET S1 == [S EXCEPT !.is_alive[handle] = FALSE,
                                  !.linked[handle] = <<>>]
                  S2 == on_signal(S1, handle, SigKill)
              IN  SendUnlinks(S2, S2.linked[handle], handle)
         ELSE S

\* Fault: a kill that does not test the flag it swaps.
kill_no_test(S, handle) ==
    IF S.panicked THEN S
    ELSE IF ~Get(S, handle) THEN Panic(S)
    ELSE LET S1 == [S EXCEPT !.is_alive[handle] = FALSE]
             S2 == on_signal(S1, handle, SigKill)
             S3 == SendUnlinks(S2, S2.linked[handle], handle)
         IN  [S3 EXCEPT !.linked[handle] = <<>>]

\* Fault: a kill that loads the flag where it should swap it.
kill_load(S, handle) ==
    IF S.panicked THEN S
    ELSE IF ~Get(S, handle) THEN Panic(S)
    ELSE IF S.is_alive[handle]
         THEN LET S2 == on_signal(S, handle, SigKill)
                  S3 == SendUnlinks(S2, S2.linked[handle], handle)
              IN  [S3 EXCEPT !.linked[handle] = <<>>]
         ELSE S

\* ProcessStore::kill
kill(S, handle) ==
    IF S.panicked THEN S
    ELSE IF ~Get(S, handle) THEN Panic(S)
    ELSE IF S.is_alive[handle]
         THEN LET S1 == [S EXCEPT !.is_alive[handle] = FALSE]
                  S2 == on_signal(S1, handle, SigKill)
                  S3 == SendUnlinks(S2, S2.linked[handle], handle)
              IN  [S3 EXCEPT !.linked[handle] = <<>>]
         ELSE S

\* linked.contains(&object)
Contains(s, x) == \E i \in DOMAIN s : s[i] = x

\* Fault: a link that does not test linked.contains(&object).
link_no_contains(S, subject, object) ==
    IF S.panicked THEN S
    ELSE IF ~Get(S, subject) THEN Panic(S)
    ELSE IF S.is_alive[subject]
         THEN LET S1 == inc_ref(S, object)
              IN  IF S1.panicked THEN S1
                  ELSE [S1 EXCEPT !.linked[subject] = Append(@, object)]
         ELSE send_signal(inc_ref(S, object), object, SigUnlink(subject))

\* Fault: a link that does not test is_alive of the subject.
link_no_alive(S, subject, object) ==
    IF S.panicked THEN S
    ELSE IF ~Get(S, subject) THEN Panic(S)
    ELSE IF ~Contains(S.linked[subject], object)
         THEN LET S1 == inc_ref(S, object)
              IN  IF S1.panicked THEN S1
                  ELSE [S1 EXCEPT !.linked[subject] = Append(@, object)]
         ELSE S

\* Fault: a link that pushes the object without self.inc_ref(object).
link_no_inc_ref(S, subject, object) ==
    IF S.panicked THEN S
    ELSE IF ~Get(S, subject) THEN Panic(S)
    ELSE IF S.is_alive[subject]
         THEN IF ~Contains(S.linked[subject], object)
              THEN [S EXCEPT !.linked[subject] = Append(@, object)]
              ELSE S
         ELSE send_signal(inc_ref(S, object), object, SigUnlink(subject))

\* ProcessStore::link
link(S, subject, object) ==
    IF S.panicked THEN S
    ELSE IF ~Get(S, subject) THEN Panic(S)
    ELSE IF S.is_alive[subject]
         THEN IF ~Contains(S.linked[subject], object)
              THEN LET S1 == inc_ref(S, object)
                   IN  IF S1.panicked THEN S1
                       ELSE [S1 EXCEPT !.linked[subject] = Append(@, object)]
              ELSE S
         ELSE send_signal(inc_ref(S, object), object, SigUnlink(subject))

\* ProcessStore::is_alive
IsAlive(S, handle) == S.is_alive[handle]

\* self.entries.vacant_entry(): a slot that holds no entry.  The keys of the
\* slab carry a generation, so a key is not handed out twice.
VacantEntry(S) == S.next_key

\* ProcessStore::insert, for a MockProcessEntry whose receiver is kept
\* (insert_forward) or dropped (insert_mock).
insert(S, receiver) ==
    LET handle == VacantEntry(S)
        S1 == Log(S, Event("on_insert", handle, NoSignal, TRUE))
    IN  [S1 EXCEPT !.entries = @ \cup {handle},
                   !.is_alive[handle] = TRUE,
                   !.linked[handle] = <<>>,
                   !.ref_count[handle] = 1,
                   !.open[handle] = receiver,
                   !.mailbox[handle] = <<>>,
                   !.next_key = @ + 1]

----------------------------------------------------------------------------
(* Capability: an owning handle and permission bits *)

\* Fault: a send that does not test the send bit.
Capability_send_unchecked(S, cap, caps) == send(S, cap.handle, caps)

\* Capability::send(store, message): store.send when the capability has
\* the send bit; the message is freed when it has not.
Capability_send(S, cap, caps) ==
    IF "send" \in cap.flags THEN send(S, cap.handle, caps)
    ELSE MessageFree(S, caps)

\* Capability::kill(store): store.kill when the capability has the kill
\* bit, nothing when it has not.
Capability_kill(S, cap) ==
    IF "kill" \in cap.flags THEN kill(S, cap.handle) ELSE S

----------------------------------------------------------------------------
(* Registry (crates/hearth-core/src/process/registry.rs) *)

\* The registry value its methods work on: the store it shares, the map of
\* services and the value the method returns.
Registry == [store |-> Store, services |-> services, ret |-> NoCap]

\* Fault: a get that hands out the stored capability without a clone.
Registry_get_no_clone(R, service) == [R EXCEPT !.ret = R.services[service]]

\* Registry::get
Registry_get(R, service) ==
    LET cap == R.services[service]
    IN  IF cap = NoCap THEN [R EXCEPT !.ret = NoCap]
        ELSE [R EXCEPT !.store = CapabilityClone(@, cap.handle),
                       !.ret = cap]

\* Fault: an insert that keeps the capability a name already has.
Registry_insert_keep(R, service, cap) ==
    [R EXCEPT !.services[service] = IF @ = NoCap THEN cap ELSE @,
              !.ret = R.services[service]]

\* Registry::insert: HashMap::insert replaces and returns the old value.
Registry_insert(R, service, cap) ==
    [R EXCEPT !.services[service] = cap, !.ret = R.services[service]]

\* Fault: a remove that leaves the capability in the map, as get would.
Registry_remove_keep(R, service) == [R EXCEPT !.ret = R.services[service]]

\* Registry::remove
Registry_remove(R, service) ==
    [R EXCEPT !.services[service] = NoCap, !.ret = R.services[service]]

\* ProcessStoreImpl::deregister_service: if let Some(old) =
\* self.registry.remove(name) { old.free(store); Ok(()) } else {
\* Err(ResourceError::Unavailable) }
deregister_service(R, name) ==
    LET R1 == Registry_remove(R, name)
    IN  IF R1.ret = NoCap THEN R1
        ELSE [R1 EXCEPT !.store = CapabilityFree(@, R1.ret.handle)]

RECURSIVE Drain(_, _)

\* for (_name, cap) in self.services.lock().drain() { cap.free(store); }
\* with the names in the order the map yields them.
Drain(R, order) ==
    IF order = <<>> THEN R
    ELSE LET cap == R.services[Head(order)]
             R1 == [R EXCEPT !.services[Head(order)] = NoCap]
         IN  IF cap = NoCap THEN Drain(R1, Tail(order))
             ELSE Drain([R1 EXCEPT !.store = CapabilityFree(@, cap.handle)],
                        Tail(order))

\* Fault: a drop that clears the map without freeing what it held.
Registry_drop_forget(R, order) ==
    [R EXCEPT !.services = [n \in Names |-> NoCap]]

\* Drop for Registry
Registry_drop(R, order) == Drain(R, order)

----------------------------------------------------------------------------
(* Connection: the tables that carry capabilities between two peers *)

Peers == {"A", "B"}

\* The peer that accepts the connection and the peer that connects.
Server == "A"

Client == "B"

Other(p) == CHOOSE q \in Peers : q # p

\* The handles of a peer's store: its own processes, the root first, and
\* the proxies it makes for what it imports.
Root == 0

Procs == 0 .. (MaxProcs - 1)

PeerHandles == 0 .. (2 * MaxProcs - 1)

\* The owner of a handle nothing is known of.
NoOwner == [peer |-> "", handle |-> NoHandle]

\* The tables of peer p when the connection is established: no export, no
\* import, capabilities to its own processes.  owner is the peer and the
\* process that a handle stands for in the end.
NewPeer(p) ==
    [exports |-> <<>>,
     imports |-> <<>>,
     next_handle |-> MaxProcs,
     caps |-> {Capability(h, IF h = Root THEN Perms ELSE {"send"}) :
                  h \in Procs},
     owner |-> [h \in PeerHandles |->
                   IF h \in Procs THEN [peer |-> p, handle |-> h]
                   ELSE NoOwner],
     root_sent |-> FALSE,
     sent |-> 0,
     inbox |-> <<>>]

\* Imports: remote_id -> local_proxy_handle, the proxy of place id if any.
Imported(P, id) == id \in DOMAIN P.imports

IsProxy(P, h) == \E id \in DOMAIN P.imports : P.imports[id] = h

ImportId(P, h) == CHOOSE id \in DOMAIN P.imports : P.imports[id] = h

\* Exports: local_handle -> remote_id, with the count of the times the
\* peer was given it.  The id of an export is its place in the table.
IsExported(P, h) == \E id \in DOMAIN P.exports : P.exports[id].handle = h

ExportId(P, h) ==
    IF IsExported(P, h)
    THEN CHOOSE id \in DOMAIN P.exports : P.exports[id].handle = h
    ELSE Len(P.exports) + 1

\* The peer after it exported h once more: the same id as before, or a
\* new one.
Export(P, h) ==
    IF IsExported(P, h)
    THEN [P EXCEPT !.exports[ExportId(P, h)].count = @ + 1]
    ELSE [P EXCEPT !.exports = Append(@, [handle |-> h, count |-> 1])]

\* Fault: an encoding that exports whatever it is given, proxies too.
Encode_export_all(P, cap) ==
    [kind |-> "ExportedRef", id |-> ExportId(P, cap.handle),
     flags |-> cap.flags]

\* The reference a Send frame carries for capability cap: ImportedRef in
\* the peer's ids for a proxy of what the peer exported, ExportedRef in
\* the sender's ids for anything else.
Encode(P, cap) ==
    IF IsProxy(P, cap.handle)
    THEN [kind |-> "ImportedRef", id |-> ImportId(P, cap.handle),
          flags |-> cap.flags]
    ELSE [kind |-> "ExportedRef", id |-> ExportId(P, cap.handle),
          flags |-> cap.flags]

\* The sender after it encoded cap as ref.
Encoded(P, cap, ref) ==
    IF ref.kind = "ExportedRef" THEN Export(P, cap.handle) ELSE P

\* The handle a reference resolves to at the receiver: its own handle for
\* an ImportedRef, by lookup in its exports; for an ExportedRef the proxy
\* of that id, a new entry of its store if it has none yet.
Decode(P, ref) ==
    IF ref.kind = "ImportedRef" THEN P.exports[ref.id].handle
    ELSE IF Imported(P, ref.id) THEN P.imports[ref.id]
    ELSE P.next_handle

\* Whether the receiver makes a proxy to resolve ref.
MakesProxy(P, ref) == ref.kind = "ExportedRef" /\ ~Imported(P, ref.id)

\* The receiver after it resolved ref, sent by the owner's peer for owner.
Decoded(P, ref, owner) ==
    LET h == Decode(P, ref)
        P1 == IF MakesProxy(P, ref)
              THEN [P EXCEPT !.imports =
                                 [id \in DOMAIN P.imports \cup {ref.id} |->
                                     IF id = ref.id THEN h ELSE P.imports[id]],
                             !.next_handle = @ + 1,
                             !.owner[h] = owner]
              ELSE P
    IN  [P1 EXCEPT !.caps = @ \cup {Capability(h, ref.flags)}]

----------------------------------------------------------------------------
(* The state machine *)

\* The bounds of the model: counts and mailboxes stay within them.
Fits(S) ==
    \A h \in Handles :
        /\ S.ref_count[h] <= MaxRef \/ S.ref_count[h] = UsizeMax
        /\ Len(S.mailbox[h]) <= MaxMail

Call(op, h, o, caps) == [op |-> op, h |-> h, o |-> o, caps |-> caps]

\* The entries as they are now.
Snapshot ==
    [entries |-> entries, is_alive |-> is_alive, ref_count |-> ref_count,
     linked |-> linked, mailbox |-> mailbox, services |-> services]

\* The store becomes S, the result of a method.
Becomes(S) ==
    /\ Fits(S)
    /\ entries' = S.entries
    /\ is_alive' = S.is_alive
    /\ ref_count' = S.ref_count
    /\ linked' = S.linked
    /\ open' = S.open
    /\ mailbox' = S.mailbox
    /\ next_key' = S.next_key
    /\ panicked' = S.panicked
    /\ trace' = S.trace
    /\ before' = Snapshot

\* The clients' references after they gave away those of sequence caps.
Give(caps) == [h \in Handles |-> held[h] - Count(caps, h)]

\* The clients' references after they were given those of sequence caps.
Take(caps) == [h \in Handles |-> held[h] + Count(caps, h)]

MaxTypes == 2

MaxPlugins == 3

MaxRunners == 2

MaxDepth == 2

\* TypeId of the types that implement Plugin.
PluginTypes == 1 .. MaxTypes

\* The plugin values handed to add_plugin and kept, in the order they were
\* handed over.
Plugins == 1 .. MaxPlugins

NoPlugin == 0

\* HashMap::new(): no TypeId has a plugin.
NoPlugins == [id \in PluginTypes |-> NoPlugin]

\* The runner that add_runner was given by a caller other than add_service
\* is written NoName, the runner add_service makes is written as the name of
\* its service.
NoName == 0

\* RuntimeBuilder::new().  hooks are the build and finish hooks that were
\* called and have not returned, the innermost last; made, type_of, built,
\* finished and drained record what happened to the plugin values.
NewBuilder ==
    [plugins |-> NoPlugins, runners |-> <<>>, services |-> {},
     service_num |-> 0, hooks |-> <<>>, made |-> 0,
     type_of |-> [p \in Plugins |-> 0],
     built |-> [p \in Plugins |-> 0],
     finished |-> [p \in Plugins |-> 0],
     drained |-> {}]

\* A call of method op of the builder with argument id, on builder was.
BuilderCall(op, id, was) == [op |-> op, id |-> id, was |-> was]

MaxThreads == 2

\* The calls of send a thread makes one after the other.
MaxSends == 2

\* The threads that call the store at the same time.
Threads == 1 .. MaxThreads

NoThread == 0

\* A thread that has called nothing.  op is the method it calls, of
\* handles h and o; pc the place it has reached in it; swapped what
\* is_alive.swap returned to it; links what is left of the link list it
\* drains; target, signal and alive are the arguments of the send_signal it
\* is in and the flag it loaded, and next the place it goes on from; stack
\* the calls of dec_ref it is in that remove an entry, each with the handle
\* and what is left of the link list it walks.
Idle ==
    [op |-> "none", pc |-> "idle", h |-> NoHandle, o |-> NoHandle,
     swapped |-> FALSE, links |-> <<>>, target |-> NoHandle,
     signal |-> NoSignal, alive |-> FALSE, next |-> "idle",
     stack |-> <<>>]

\* No thread has called the store.  lock is, per entry, the thread that
\* holds the lock of its link list; delivered the calls of on_signal the
\* threads made, in their order; start the flags and link lists as the
\* first call found them.
NoRace ==
    [racing |-> FALSE,
     thread |-> [t \in Threads |-> Idle],
     lock |-> [h \in Handles |-> NoThread],
     delivered |-> <<>>,
     start |-> [is_alive |-> [h \in Handles |-> FALSE],
                linked |-> [h \in Handles |-> <<>>]]]

MaxLumps == 5

MaxLumpIds == 2

\* The bits of a handle of the guest, 32 in the source (u32).
HandleBits == 2

\* LumpId: the hash of a lump; a lump of hash id has id bytes.
LumpIds == 1 .. MaxLumpIds

NoLump == 0

\* LumpAbi::default(): an empty slab over a lump store.  store is the
\* hashes the lump store has; entries are the slots of the slab, occupied
\* by a LocalLump or vacant and naming the slot to be filled after them;
\* next is the slot the next insert fills.  op and arg are the call served
\* last and the handle or hash it was given, ok and value its Result,
\* written what it wrote to the guest's memory, freed the handles freed and
\* not returned since.
NewLumpAbi ==
    [store |-> {}, entries |-> <<>>, next |-> 0,
     op |-> "new", arg |-> 0, ok |-> TRUE, value |-> 0,
     written |-> NoLump, freed |-> {},
     was |-> [store |-> {}, entries |-> <<>>, next |-> 0]]

\* A connection that is up and has exported and imported nothing.  torn is
\* what its teardown found in the tables.
NewConnection ==
    [up |-> TRUE, exports |-> <<>>, imports |-> <<>>,
     torn |-> [exports |-> <<>>, imports |-> <<>>]]

Init ==
    /\ entries = {}
    /\ is_alive = [h \in Handles |-> FALSE]
    /\ ref_count = [h \in Handles |-> 0]
    /\ linked = [h \in Handles |-> <<>>]
    /\ open = [h \in Handles |-> FALSE]
    /\ mailbox = [h \in Handles |-> <<>>]
    /\ next_key = 0
    /\ held = [h \in Handles |-> 0]
    /\ panicked = FALSE
    /\ services = [n \in Names |-> NoCap]
    /\ dropped = FALSE
    /\ ret = NoCap
    /\ inserted = [n \in Names |-> NoCap]
    /\ peers = [p \in Peers |-> NewPeer(p)]
    /\ arrived = [at |-> "", ref |-> NoCap, owner |-> NoOwner,
                  cap |-> NoCap, proxy |-> FALSE]
    /\ pc = [p \in Peers |-> IF p = Server THEN "accept" ELSE "connect"]
    /\ roots = [p \in Peers |-> 0]
    /\ connection = NewConnection
    /\ builder = NewBuilder
    /\ run = [pc |-> "build", plugins |-> NoPlugins, next |-> 1, i |-> 0,
              iterations |-> 0]
    /\ tasks = [at |-> [k \in 1 .. MaxRunners |-> "none"],
                registry |-> [n \in Names |-> 0],
                started |-> <<>>]
    /\ called = BuilderCall("new", 0, NewBuilder)
    /\ lump_abi = NewLumpAbi
    /\ race = NoRace
    /\ converted = [op |-> "none", peer |-> 0, pid |-> 0, id |-> 0,
                    again |-> [peer |-> 0, pid |-> 0, id |-> 0]]
    /\ last = Call("new", NoHandle, NoHandle, <<>>)
    /\ before = Snapshot
    /\ trace = <<>>

\* The connection is left as it is.
ConnectionUntouched == UNCHANGED <<peers, arrived>>

\* The store is left as it is, and what its clients hold.
StoreUntouched ==
    UNCHANGED <<entries, is_alive, ref_count, linked, open, mailbox,
                next_key, held, panicked, last, before, trace>>

\* The tasks that set a connection up are left where they are.
HandshakeUntouched == UNCHANGED <<pc, roots>>

\* No thread takes a step.
ThreadsUntouched == UNCHANGED race

\* The LumpAbi is left as it is.
LumpsUntouched == UNCHANGED lump_abi

\* No ProcessId is converted.
IdsUntouched == UNCHANGED converted

\* The builder of the runtime and its run are left as they are.
RuntimeUntouched == UNCHANGED <<builder, run, tasks, called>>

\* The tables of the connection that shares the store are left as they are.
TablesUntouched == UNCHANGED connection

\* What was modelled after the tasks that set a connection up is left as it
\* is.
LaterUntouched ==
    /\ TablesUntouched
    /\ RuntimeUntouched
    /\ IdsUntouched
    /\ LumpsUntouched
    /\ ThreadsUntouched

\* All that is neither store, registry nor connection is left as it is.
TheRestUntouched == HandshakeUntouched /\ LaterUntouched

\* The registry is left as it is.
RegistryUntouched == UNCHANGED <<services, dropped, ret, inserted>>

\* The step is one of the store alone.
OnlyTheStore ==
    /\ RegistryUntouched
    /\ ConnectionUntouched
    /\ TheRestUntouched

\* store.insert(entry): the caller owns the handle returned.
Insert ==
    /\ ~panicked
    /\ next_key < MaxHandles
    /\ \E receiver \in BOOLEAN :
          /\ Becomes(insert(Store, receiver))
          /\ held' = [held EXCEPT ![next_key] = 1]
          /\ last' = Call("insert", next_key, NoHandle, <<>>)
          /\ OnlyTheStore

\* store.send(handle, message) by a client that holds a reference to handle
\* and owns the capabilities it puts in the message.
Send ==
    /\ ~panicked
    /\ \E h \in Handles, caps \in SeqUpTo(Handles, MaxCaps) :
          /\ held[h] >= 1 + Count(caps, h)
          /\ \A g \in Handles : held[g] >= Count(caps, g)
          /\ Becomes(send(Store, h, caps))
          /\ held' = Give(caps)
          /\ last' = Call("send", h, NoHandle, caps)
          /\ OnlyTheStore

\* store.kill(handle)
Kill ==
    /\ ~panicked
    /\ \E h \in Handles :
          /\ held[h] >= 1
          /\ Becomes(kill(Store, h))
          /\ held' = held
          /\ last' = Call("kill", h, NoHandle, <<>>)
          /\ OnlyTheStore

\* store.link(subject, object)
Link ==
    /\ ~panicked
    /\ \E s \in Handles, o \in Handles :
          /\ held[s] >= 1
          /\ held[o] >= 1
          /\ Becomes(link(Store, s, o))
          /\ held' = held
          /\ last' = Call("link", s, o, <<>>)
          /\ OnlyTheStore

\* store.inc_ref(handle): a client clones a capability it holds.
IncRef ==
    /\ ~panicked
    /\ \E h \in Handles :
          /\ held[h] >= 1
          /\ Becomes(inc_ref(Store, h))
          /\ held' = [held EXCEPT ![h] = @ + 1]
          /\ last' = Call("inc_ref", h, NoHandle, <<>>)
          /\ OnlyTheStore

\* store.dec_ref(handle): a client frees a capability it holds.
DecRef ==
    /\ ~panicked
    /\ \E h \in Handles :
          /\ held[h] >= 1
          /\ Becomes(dec_ref(Store, h))
          /\ held' = [held EXCEPT ![h] = @ - 1]
          /\ last' = Call("dec_ref", h, NoHandle, <<>>)
          /\ OnlyTheStore

\* The store is left as it is; the mailbox of h loses its first signal.
Received(h) ==
    /\ mailbox' = [mailbox EXCEPT ![h] = Tail(@)]
    /\ trace' = <<>>
    /\ before' = Snapshot
    /\ UNCHANGED <<entries, is_alive, ref_count, linked, open, next_key,
                   panicked>>

\* mailbox.try_recv() of a Message: the receiver now owns its capabilities.
ReceiveMessage ==
    /\ ~panicked
    /\ \E h \in Handles :
          /\ mailbox[h] # <<>>
          /\ Head(mailbox[h]).kind = "Message"
          /\ Received(h)
          /\ held' = Take(Head(mailbox[h]).caps)
          /\ last' = Call("recv", h, NoHandle, Head(mailbox[h]).caps)
          /\ OnlyTheStore

\* mailbox.try_recv() of a Kill, which carries nothing.
ReceiveKill ==
    /\ ~panicked
    /\ \E h \in Handles :
          /\ mailbox[h] # <<>>
          /\ Head(mailbox[h]).kind = "Kill"
          /\ Received(h)
          /\ held' = held
          /\ last' = Call("recv", h, NoHandle, <<>>)
          /\ OnlyTheStore

\* mailbox.try_recv() of an Unlink by a receiver that drops it unread, as
\* the receivers of the store's tests do.
ReceiveUnlink ==
    /\ ~panicked
    /\ \E h \in Handles :
          /\ mailbox[h] # <<>>
          /\ Head(mailbox[h]).kind = "Unlink"
          /\ Received(h)
          /\ held' = held
          /\ last' = Call("recv", h, Head(mailbox[h]).subject, <<>>)
          /\ OnlyTheStore

\* mailbox.try_recv() of an Unlink by a receiver that takes its subject for
\* the owning reference a signal's handles are, to free it later.
TakeUnlink ==
    /\ ~panicked
    /\ \E h \in Handles :
          /\ mailbox[h] # <<>>
          /\ Head(mailbox[h]).kind = "Unlink"
          /\ Received(h)
          /\ held' = Take(<<Head(mailbox[h]).subject>>)
          /\ last' = Call("recv", h, Head(mailbox[h]).subject, <<>>)
          /\ OnlyTheStore

\* The signals a client can make of the references it holds.
OwnedSignals ==
    {SigKill}
        \cup {SigUnlink(h) : h \in {g \in Handles : held[g] >= 1}}
        \cup {SigMessage(caps) : caps \in
                 {cs \in SeqUpTo(Handles, MaxCaps) :
                     \A g \in Handles : held[g] >= Count(cs, g)}}

\* signal.clone(store).free(store): a client copies a signal it owns and
\* frees the copy; the signal stays its own.
CloneFree ==
    /\ ~panicked
    /\ \E signal \in OwnedSignals :
          /\ Becomes(SignalFree(SignalClone(Store, signal), signal))
          /\ held' = held
          /\ last' = Call("clone_free", signal.subject, NoHandle, signal.caps)
          /\ OnlyTheStore

\* A call of a method of capability cap, with the handles of a message.
CapabilityCall(op, cap, caps) ==
    [op |-> op, h |-> cap.handle, o |-> NoHandle, caps |-> caps, cap |-> cap]

\* cap.send(store, message) by a client that holds cap, with whatever flags
\* it has, and owns the capabilities it puts in the message.
CapabilitySend ==
    /\ ~panicked
    /\ \E h \in Handles, flags \in Flags, caps \in SeqUpTo(Handles, MaxCaps) :
          /\ held[h] >= 1 + Count(caps, h)
          /\ \A g \in Handles : held[g] >= Count(caps, g)
          /\ Becomes(Capability_send(Store, Capability(h, flags), caps))
          /\ held' = Give(caps)
          /\ last' = CapabilityCall("Capability::send",
                                    Capability(h, flags), caps)
          /\ OnlyTheStore

\* cap.kill(store) by a client that holds cap.
CapabilityKill ==
    /\ ~panicked
    /\ \E h \in Handles, flags \in Flags :
          /\ held[h] >= 1
          /\ Becomes(Capability_kill(Store, Capability(h, flags)))
          /\ held' = held
          /\ last' = CapabilityCall("Capability::kill",
                                    Capability(h, flags), <<>>)
          /\ OnlyTheStore

\* A call of a Registry method on service with capability cap.
RegistryCall(op, service, cap) ==
    [op |-> op, h |-> cap.handle, o |-> service, caps |-> <<>>, cap |-> cap]

\* The registry and its store become R, the result of a Registry method.
BecomesRegistry(R) ==
    /\ Becomes(R.store)
    /\ services' = R.services
    /\ ret' = R.ret
    /\ ConnectionUntouched
    /\ TheRestUntouched

\* The clients' references after they gave away capability given and were
\* handed capability taken (either may be NoCap).
Exchange(given, taken) ==
    [h \in Handles |->
        held[h] - (IF given.handle = h THEN 1 ELSE 0)
                + (IF taken.handle = h THEN 1 ELSE 0)]

\* The orders in which a HashMap can yield the names.
Orders == {s \in [1 .. MaxNames -> Names] : NoDuplicates(s)}

\* The flags of the capabilities the clients register: none, as the tests
\* of the registry do, or the send bit.
ServiceFlags == {{}, {"send"}}

\* registry.insert(service, cap) by a client that owns cap; the client owns
\* the capability returned.
RegistryInsert ==
    /\ ~panicked
    /\ ~dropped
    /\ \E service \in Names, h \in Handles, flags \in ServiceFlags :
          /\ held[h] >= 1
          /\ LET cap == Capability(h, flags)
                 R == Registry_insert(Registry, service, cap)
             IN  /\ BecomesRegistry(R)
                 /\ held' = Exchange(cap, R.ret)
                 /\ last' = RegistryCall("Registry::insert", service, cap)
                 /\ inserted' = [inserted EXCEPT ![service] = cap]
          /\ dropped' = dropped

\* registry.get(service); the client owns the capability returned.
RegistryGet ==
    /\ ~panicked
    /\ ~dropped
    /\ \E service \in Names :
          LET R == Registry_get(Registry, service)
          IN  /\ BecomesRegistry(R)
              /\ held' = Exchange(NoCap, R.ret)
              /\ last' = RegistryCall("Registry::get", service, NoCap)
    /\ inserted' = inserted
    /\ dropped' = dropped

\* registry.remove(service); the client owns the capability returned.
RegistryRemove ==
    /\ ~panicked
    /\ ~dropped
    /\ \E service \in Names :
          LET R == Registry_remove(Registry, service)
          IN  /\ BecomesRegistry(R)
              /\ held' = Exchange(NoCap, R.ret)
              /\ last' = RegistryCall("Registry::remove", service, NoCap)
              /\ inserted' = [inserted EXCEPT ![service] = NoCap]
    /\ dropped' = dropped

\* deregister_service(name) of the process API; result is what it returns,
\* and ret what Registry::remove returned to it.
DeregisterService ==
    /\ ~panicked
    /\ ~dropped
    /\ \E name \in Names :
          LET R == deregister_service(Registry, name)
          IN  /\ BecomesRegistry(R)
              /\ held' = held
              /\ last' = RegistryCall("deregister_service", name, NoCap)
                            @@ [result |-> IF R.ret = NoCap
                                           THEN "Unavailable" ELSE "Ok"]
              /\ inserted' = [inserted EXCEPT ![name] = NoCap]
    /\ dropped' = dropped

\* drop(registry)
RegistryDrop ==
    /\ ~panicked
    /\ ~dropped
    /\ \E order \in Orders :
          BecomesRegistry(Registry_drop(Registry, order))
    /\ held' = held
    /\ last' = RegistryCall("Registry::drop", 0, NoCap)
    /\ inserted' = [n \in Names |-> NoCap]
    /\ dropped' = TRUE

\* The step is one of the connection alone.
OnlyTheConnection ==
    /\ RegistryUntouched
    /\ UNCHANGED <<entries, is_alive, ref_count, linked, open, mailbox,
                   next_key, held, panicked, last, before, trace>>
    /\ TheRestUntouched

\* Peer p puts frame on the wire to the other peer.
Wire(p, P, frame) ==
    [peers EXCEPT ![p] = [P EXCEPT !.sent = @ + 1],
                  ![Other(p)].inbox = Append(@, frame)]

\* A peer offers its root: the one ExportRoot frame of its side.
ExportRoot ==
    /\ \E p \in Peers :
          /\ ~peers[p].root_sent
          /\ peers[p].sent < MaxFrames
          /\ LET cap == Capability(Root, Perms)
                 ref == Encode(peers[p], cap)
                 P == [Encoded(peers[p], cap, ref) EXCEPT !.root_sent = TRUE]
             IN  peers' = Wire(p, P, [tag |-> "ExportRoot", ref |-> ref,
                                      owner |-> peers[p].owner[Root]])
    /\ arrived' = arrived
    /\ OnlyTheConnection

\* A peer sends a message to a process of the other peer, through a proxy
\* it holds, with a capability it holds.
ConnectionSend ==
    /\ \E p \in Peers : \E target \in peers[p].caps, cap \in peers[p].caps :
          /\ IsProxy(peers[p], target.handle)
          /\ peers[p].sent < MaxFrames
          /\ LET ref == Encode(peers[p], cap)
                 P == Encoded(peers[p], cap, ref)
             IN  peers' = Wire(p, P, [tag |-> "Send", ref |-> ref,
                                      owner |-> peers[p].owner[cap.handle]])
    /\ arrived' = arrived
    /\ OnlyTheConnection

\* A peer reads the first frame of its inbox and resolves the reference.
ConnectionReceive ==
    /\ \E p \in Peers :
          /\ peers[p].inbox # <<>>
          /\ LET frame == Head(peers[p].inbox)
                 P == [peers[p] EXCEPT !.inbox = Tail(@)]
             IN  /\ peers' = [peers EXCEPT
                                 ![p] = Decoded(P, frame.ref, frame.owner)]
                 /\ arrived' = [at |-> p,
                                ref |-> frame.ref,
                                owner |-> frame.owner,
                                cap |-> Capability(Decode(P, frame.ref),
                                                   frame.ref.flags),
                                proxy |-> MakesProxy(P, frame.ref)]
    /\ OnlyTheConnection

----------------------------------------------------------------------------
(* The tasks that set a connection up: on_accept of the server           *)
(* (main/server/src/main.rs) and connect of the client                   *)
(* (crates/hearth-client/src/main.rs)                                    *)

\* The step is one of the two tasks and of the connection they begin.
OnlyTheHandshake ==
    /\ RegistryUntouched
    /\ StoreUntouched
    /\ LaterUntouched

\* TcpStream::connect(server) succeeds and listener.accept() returns the
\* socket: both tasks go on to authenticate.
TcpConnect ==
    /\ pc[Client] = "connect"
    /\ pc[Server] = "accept"
    /\ pc' = [p \in Peers |-> "login"]
    /\ UNCHANGED <<roots, peers, arrived>>
    /\ OnlyTheHandshake

\* The server cannot be resolved or reached: connect returns.
ConnectFails ==
    /\ pc[Client] = "connect"
    /\ pc' = [pc EXCEPT ![Client] = "closed"]
    /\ UNCHANGED <<roots, peers, arrived>>
    /\ OnlyTheHandshake

\* login yields the session key, which takes a peer that has not given up:
\* the task makes its Connection (Connection::begin), whose reader runs
\* from now on.
Login ==
    /\ \E p \in Peers :
          /\ pc[p] = "login"
          /\ pc[Other(p)] # "closed"
          /\ pc' = [pc EXCEPT ![p] = "export_root"]
    /\ UNCHANGED <<roots, peers, arrived>>
    /\ OnlyTheHandshake

\* login fails: the task returns and its socket is dropped.
LoginFails ==
    /\ \E p \in Peers :
          /\ pc[p] = "login"
          /\ pc' = [pc EXCEPT ![p] = "closed"]
    /\ UNCHANGED <<roots, peers, arrived>>
    /\ OnlyTheHandshake

\* The frame export_root puts on the wire for the root of peer p.
RootFrame(p) ==
    [tag |-> "ExportRoot",
     ref |-> Encode(peers[p], Capability(Root, Perms)),
     owner |-> peers[p].owner[Root]]

\* Fault: a task that leaves export_root out and waits at once.
CallExportRoot_skip(p) ==
    /\ pc[p] = "export_root"
    /\ pc' = [pc EXCEPT ![p] = "wait_root"]
    /\ UNCHANGED <<roots, peers>>

\* conn.export_root(network_root), then the task waits for the root of
\* the peer.
CallExportRoot(p) ==
    /\ pc[p] = "export_root"
    /\ pc' = [pc EXCEPT ![p] = "wait_root"]
    /\ roots' = [roots EXCEPT ![p] = @ + 1]
    /\ LET cap == Capability(Root, Perms)
           P == [Encoded(peers[p], cap, RootFrame(p).ref)
                    EXCEPT !.root_sent = TRUE]
       IN  peers' = Wire(p, P, RootFrame(p))

ExportRootCalled ==
    /\ \E p \in Peers : CallExportRoot(p)
    /\ arrived' = arrived
    /\ OnlyTheHandshake

\* The stages at which the Connection of a task has begun.
Begun == {"export_root", "wait_root", "connected"}

\* The reader of a Connection that has begun takes a frame.
HandshakeReceive ==
    /\ ConnectionReceive
    /\ pc[arrived'.at] \in Begun

\* A peer that is connected uses the connection.
HandshakeSend ==
    /\ ConnectionSend
    /\ \A p \in Peers : peers'[p].sent # peers[p].sent => pc[p] = "connected"

\* Whether peer p has been given the root of the other peer.
HasPeerRoot(p) ==
    \E cap \in peers[p].caps :
        peers[p].owner[cap.handle] = [peer |-> Other(p), handle |-> Root]

\* root_cap.await returns the root of the peer.
RootReceived ==
    /\ \E p \in Peers :
          /\ pc[p] = "wait_root"
          /\ HasPeerRoot(p)
          /\ pc' = [pc EXCEPT ![p] = "connected"]
    /\ UNCHANGED <<roots, peers, arrived>>
    /\ OnlyTheHandshake

\* root_cap.await returns Err: the peer has gone and sent no root.
RootNeverReceived ==
    /\ \E p \in Peers :
          /\ pc[p] = "wait_root"
          /\ pc[Other(p)] = "closed"
          /\ peers[p].inbox = <<>>
          /\ ~HasPeerRoot(p)
          /\ pc' = [pc EXCEPT ![p] = "closed"]
    /\ UNCHANGED <<roots, peers, arrived>>
    /\ OnlyTheHandshake

NextHandshake ==
    \/ TcpConnect
    \/ ConnectFails
    \/ Login
    \/ LoginFails
    \/ ExportRootCalled
    \/ HandshakeReceive
    \/ HandshakeSend
    \/ RootReceived
    \/ RootNeverReceived

\* The two tasks, each scheduled again and again by the executor, and the
\* readers of their connections.
SpecHandshake ==
    /\ Init
    /\ [][NextHandshake]_vars
    /\ WF_vars(Login)
    /\ WF_vars(ExportRootCalled)
    /\ WF_vars(HandshakeReceive)
    /\ WF_vars(RootReceived)

----------------------------------------------------------------------------
(* The export and import tables of a connection over the store, and the  *)
(* teardown of the connection when it fails (specification, 4.5)          *)

MaxExports == 2

RECURSIVE RevokeEach(_, _)

\* Every export is revoked: the connection frees the reference it owns on
\* the local handle.
RevokeEach(S, exports) ==
    IF exports = <<>> THEN S
    ELSE RevokeEach(dec_ref(Log(S, Event("revoke", Head(exports), NoSignal,
                                         TRUE)),
                            Head(exports)),
                    Tail(exports))

RECURSIVE KillEach(_, _)

\* Every import proxy is killed.  The import of a proxy that was removed
\* from the store has been deleted with it.
KillEach(S, imports) ==
    IF imports = <<>> THEN S
    ELSE IF Head(imports) \in S.entries
         THEN KillEach(kill(S, Head(imports)), Tail(imports))
         ELSE KillEach(S, Tail(imports))

\* Fault: a teardown that revokes the exports and leaves the proxies alive.
Teardown_keep_proxies(S, c, kill_first) == RevokeEach(S, c.exports)

\* The teardown of connection c; whether it kills the proxies before it
\* revokes the exports is not laid down.
Teardown(S, c, kill_first) ==
    IF kill_first
    THEN RevokeEach(KillEach(S, c.imports), c.exports)
    ELSE KillEach(RevokeEach(S, c.exports), c.imports)

\* The imports whose proxies are in the store.
Imports == SelectSeq(connection.imports, LAMBDA h : h \in entries)

\* The step is one of the store and of the connection that shares it.
OnlyTheTables ==
    /\ RegistryUntouched
    /\ ConnectionUntouched
    /\ HandshakeUntouched
    /\ RuntimeUntouched
    /\ IdsUntouched
    /\ LumpsUntouched
    /\ ThreadsUntouched

\* A capability a client holds is sent to the peer: the connection exports
\* its handle and owns the reference from now on.  (A proxy goes back as a
\* reference to the peer's own export, and is not exported.)
ExportsHandle ==
    /\ ~panicked
    /\ connection.up
    /\ Len(connection.exports) < MaxExports
    /\ \E h \in Handles :
          /\ held[h] >= 1
          /\ ~Contains(connection.exports, h)
          /\ ~Contains(connection.imports, h)
          /\ Becomes(Store)
          /\ held' = [held EXCEPT ![h] = @ - 1]
          /\ connection' = [connection EXCEPT !.exports = Append(@, h)]
          /\ last' = Call("export", h, NoHandle, <<>>)
          /\ OnlyTheTables

\* A capability of the peer arrives: the connection inserts a proxy, whose
\* on_signal forwards what it is given, and a client owns the capability.
ImportsProxy ==
    /\ ~panicked
    /\ connection.up
    /\ next_key < MaxHandles
    /\ Becomes(insert(Store, TRUE))
    /\ held' = [held EXCEPT ![next_key] = 1]
    /\ connection' = [connection EXCEPT !.imports = Append(Imports, next_key)]
    /\ last' = Call("import", next_key, NoHandle, <<>>)
    /\ OnlyTheTables

\* An I/O or decode error: the connection is torn down.
Fails ==
    /\ ~panicked
    /\ connection.up
    /\ \E kill_first \in BOOLEAN :
          /\ Becomes(Teardown(Store, [connection EXCEPT !.imports = Imports],
                              kill_first))
          /\ last' = Call("teardown", NoHandle, NoHandle, <<>>)
    /\ held' = held
    /\ connection' = [up |-> FALSE, exports |-> <<>>, imports |-> <<>>,
                      torn |-> [exports |-> connection.exports,
                                imports |-> Imports]]
    /\ OnlyTheTables

NextTeardown ==
    \/ Insert
    \/ Link
    \/ Kill
    \/ DecRef
    \/ ReceiveKill
    \/ ReceiveUnlink
    \/ ExportsHandle
    \/ ImportsProxy
    \/ Fails

\* The store, and a connection that exports from it and imports into it
\* until it fails.
SpecTeardown == Init /\ [][NextTeardown]_vars

----------------------------------------------------------------------------
(* RuntimeBuilder (crates/hearth-core/src/runtime.rs)                     *)

\* self.plugins.contains_key(&id)
contains_key(B, id) == B.plugins[id] # NoPlugin

\* A hook of plugin, of type id, that was called and has not returned.
Hook(hook, id, plugin) == [hook |-> hook, id |-> id, plugin |-> plugin]

\* The hook that runs.
Running(B) == B.hooks[Len(B.hooks)]

\* The hook that runs returns.
Return(B) == [B EXCEPT !.hooks = SubSeq(@, 1, Len(@) - 1)]

\* plugin.build(self) is called.
Build(B, id) ==
    LET plugin == B.made + 1
    IN  [B EXCEPT !.made = plugin,
                  !.type_of[plugin] = id,
                  !.built[plugin] = @ + 1,
                  !.hooks = Append(@, Hook("build", id, plugin))]

\* Fault: an add_plugin that does not look whether the type has a plugin.
add_plugin_again(B, id) == Build(B, id)

\* RuntimeBuilder::add_plugin, to its call of plugin.build(self)
add_plugin(B, id) ==
    IF contains_key(B, id) THEN B
    ELSE Build(B, id)

\* RuntimeBuilder::add_plugin, from the return of plugin.build(self):
\* self.plugins.insert(id, PluginWrapper { plugin, finish })
add_plugin_insert(B) ==
    [Return(B) EXCEPT !.plugins[Running(B).id] = Running(B).plugin]

\* RuntimeBuilder::add_runner
add_runner(B, cb) == [B EXCEPT !.runners = Append(@, cb)]

\* Fault: an add_service that counts a service whose name is taken.
add_service_count_taken(B, name) ==
    IF name \in B.services THEN [B EXCEPT !.service_num = @ + 1]
    ELSE add_runner([B EXCEPT !.service_num = @ + 1,
                              !.services = @ \cup {name}],
                    name)

\* RuntimeBuilder::add_service
add_service(B, name) ==
    IF name \in B.services THEN B
    ELSE add_runner([B EXCEPT !.service_num = @ + 1,
                              !.services = @ \cup {name}],
                    name)

\* The step is one of the builder, of its run or of the tasks it spawned.
OnlyTheRuntime ==
    /\ RegistryUntouched
    /\ ConnectionUntouched
    /\ StoreUntouched
    /\ HandshakeUntouched
    /\ TablesUntouched
    /\ IdsUntouched
    /\ LumpsUntouched
    /\ ThreadsUntouched

\* The builder is borrowed mutably: its methods are called by the code that
\* builds the runtime, before it calls run, or by the hook that runs.
CanCall ==
    \/ run.pc = "build" /\ builder.hooks = <<>>
    \/ builder.hooks # <<>>

\* builder.add_plugin(plugin), to the call of the build hook
AddPlugin ==
    /\ CanCall
    /\ \E id \in PluginTypes :
          /\ \/ contains_key(builder, id)
             \/ /\ builder.made < MaxPlugins
                /\ Len(builder.hooks) < MaxDepth
          /\ builder' = add_plugin(builder, id)
          /\ called' = BuilderCall("add_plugin", id, builder)
    /\ UNCHANGED <<run, tasks>>
    /\ OnlyTheRuntime

\* The build hook returns and add_plugin inserts the plugin.
BuildReturns ==
    /\ builder.hooks # <<>>
    /\ Running(builder).hook = "build"
    /\ builder' = add_plugin_insert(builder)
    /\ called' = BuilderCall("insert", Running(builder).id, builder)
    /\ UNCHANGED <<run, tasks>>
    /\ OnlyTheRuntime

\* builder.add_runner(cb)
AddRunner ==
    /\ CanCall
    /\ Len(builder.runners) < MaxRunners
    /\ builder' = add_runner(builder, NoName)
    /\ called' = BuilderCall("add_runner", NoName, builder)
    /\ UNCHANGED <<run, tasks>>
    /\ OnlyTheRuntime

\* builder.add_service(name, info, flags, cb)
AddService ==
    /\ CanCall
    /\ \E name \in Names :
          /\ name \in builder.services \/ Len(builder.runners) < MaxRunners
          /\ builder' = add_service(builder, name)
          /\ called' = BuilderCall("add_service", name, builder)
    /\ UNCHANGED <<run, tasks>>
    /\ OnlyTheRuntime

\* builder.run(config) is called.
RunCalled ==
    /\ run.pc = "build"
    /\ builder.hooks = <<>>
    /\ run' = [run EXCEPT !.pc = "loop"]
    /\ called' = BuilderCall("run", 0, builder)
    /\ UNCHANGED <<builder, tasks>>
    /\ OnlyTheRuntime

\* let plugins = std::mem::take(&mut self.plugins);
\* if plugins.is_empty() { break; }
TakePlugins ==
    /\ run.pc = "loop"
    /\ builder' =
          [builder EXCEPT !.plugins = NoPlugins,
                          !.drained = @ \cup ({builder.plugins[id] :
                                                id \in PluginTypes}
                                                  \ {NoPlugin})]
    /\ run' = [run EXCEPT
                  !.pc = IF builder.plugins = NoPlugins THEN "runners"
                         ELSE "for",
                  !.plugins = builder.plugins,
                  !.iterations = IF builder.plugins = NoPlugins THEN @
                                 ELSE @ + 1]
    /\ UNCHANGED <<tasks, called>>
    /\ OnlyTheRuntime

\* for (_id, wrapper) in plugins { finish(plugin, &mut self); }: the finish
\* hook of the next plugin is called, in the order of the HashMap.
FinishCalled ==
    /\ run.pc = "for"
    /\ builder.hooks = <<>>
    /\ \E id \in PluginTypes :
          /\ run.plugins[id] # NoPlugin
          /\ run' = [run EXCEPT !.plugins[id] = NoPlugin]
          /\ builder' =
                [builder EXCEPT
                    !.finished[run.plugins[id]] = @ + 1,
                    !.hooks = Append(@, Hook("finish", id, run.plugins[id]))]
    /\ UNCHANGED <<tasks, called>>
    /\ OnlyTheRuntime

\* Fault: a run that drains the plugins once and does not loop.
FinishReturns_once ==
    /\ builder.hooks # <<>>
    /\ Running(builder).hook = "finish"
    /\ builder' = Return(builder)
    /\ run' = [run EXCEPT !.pc = IF run.plugins = NoPlugins THEN "runners"
                                 ELSE "for"]
    /\ UNCHANGED <<tasks, called>>
    /\ OnlyTheRuntime

\* The finish hook returns; after the last plugin the loop starts again.
FinishReturns ==
    /\ builder.hooks # <<>>
    /\ Running(builder).hook = "finish"
    /\ builder' = Return(builder)
    /\ run' = [run EXCEPT !.pc = IF run.plugins = NoPlugins THEN "loop"
                                 ELSE "for"]
    /\ UNCHANGED <<tasks, called>>
    /\ OnlyTheRuntime

\* for runner in self.runners { runner(runtime.clone()); }: the runner that
\* add_service made spawns the task of the service.
InvokeRunner ==
    /\ run.pc = "runners"
    /\ run.next <= Len(builder.runners)
    /\ run' = [run EXCEPT !.next = @ + 1]
    /\ tasks' = [tasks EXCEPT !.at[run.next] =
                    IF builder.runners[run.next] = NoName THEN "ran"
                    ELSE "spawned"]
    /\ UNCHANGED <<builder, called>>
    /\ OnlyTheRuntime

\* The last runner was invoked: run goes on to wait for the services.
RunnersDone ==
    /\ run.pc = "runners"
    /\ run.next > Len(builder.runners)
    /\ run' = [run EXCEPT !.pc = "wait"]
    /\ UNCHANGED <<builder, tasks, called>>
    /\ OnlyTheRuntime

\* runtime.process_factory.spawn(info, flags) and the copy of the self
\* capability, in the task of a service
TaskSpawns ==
    /\ \E k \in 1 .. MaxRunners :
          /\ tasks.at[k] = "spawned"
          /\ tasks' = [tasks EXCEPT !.at[k] = "process"]
    /\ UNCHANGED <<builder, run, called>>
    /\ OnlyTheRuntime

\* runtime.process_registry.insert(name.clone(), self_cap); a capability
\* it replaces is freed.
TaskInserts ==
    /\ \E k \in 1 .. MaxRunners :
          /\ tasks.at[k] = "process"
          /\ tasks' = [tasks EXCEPT !.at[k] = "registered",
                                    !.registry[builder.runners[k]] = k]
    /\ UNCHANGED <<builder, run, called>>
    /\ OnlyTheRuntime

\* Fault: a task that ends without service_start_tx.send(name).
TaskConfirms_silent(k) ==
    tasks' = [tasks EXCEPT !.at[k] = "started"]

\* let _ = service_start_tx.send(name); cb(runtime, process);
TaskConfirms(k) ==
    tasks' = [tasks EXCEPT !.at[k] = "started",
                           !.started = Append(@, builder.runners[k])]

\* The task of a service confirms that it has started.
Confirms ==
    /\ \E k \in 1 .. MaxRunners :
          /\ tasks.at[k] = "registered"
          /\ TaskConfirms(k)
    /\ UNCHANGED <<builder, run, called>>
    /\ OnlyTheRuntime

\* for i in 0..service_num { service_rx.recv().await.expect(..) }: one
\* name is received.
Receive ==
    /\ run.pc = "wait"
    /\ run.i < builder.service_num
    /\ tasks.started # <<>>
    /\ tasks' = [tasks EXCEPT !.started = Tail(@)]
    /\ run' = [run EXCEPT !.i = @ + 1]
    /\ UNCHANGED <<builder, called>>
    /\ OnlyTheRuntime

\* Fault: a run that does not wait for the services.
Returns_at_once ==
    /\ run.pc = "wait"
    /\ run' = [run EXCEPT !.pc = "returned"]
    /\ UNCHANGED <<builder, tasks, called>>
    /\ OnlyTheRuntime

\* All names were received: run returns the runtime.
Returns ==
    /\ run.pc = "wait"
    /\ run.i = builder.service_num
    /\ run' = [run EXCEPT !.pc = "returned"]
    /\ UNCHANGED <<builder, tasks, called>>
    /\ OnlyTheRuntime

NextRuntime ==
    \/ AddPlugin
    \/ BuildReturns
    \/ AddRunner
    \/ AddService
    \/ RunCalled
    \/ TakePlugins
    \/ FinishCalled
    \/ FinishReturns
    \/ InvokeRunner
    \/ RunnersDone
    \/ TaskSpawns
    \/ TaskInserts
    \/ Confirms
    \/ Receive
    \/ Returns

\* The builder, its run, and the tasks of the services; every hook that was
\* called returns, run is polled until it returns, and so is every task
\* that was spawned.
SpecRuntime ==
    /\ Init
    /\ [][NextRuntime]_vars
    /\ WF_vars(BuildReturns)
    /\ WF_vars(FinishReturns)
    /\ WF_vars(TakePlugins)
    /\ WF_vars(FinishCalled)
    /\ WF_vars(InvokeRunner)
    /\ WF_vars(RunnersDone)
    /\ WF_vars(TaskSpawns)
    /\ WF_vars(TaskInserts)
    /\ WF_vars(Confirms)
    /\ WF_vars(Receive)
    /\ WF_vars(Returns)

----------------------------------------------------------------------------
(* ProcessId (crates/hearth-types/src/lib.rs)                             *)

\* The bits of PeerId and of LocalProcessId, 32 in the source; ProcessId
\* has twice as many.
HalfBits == 3

RECURSIVE Pow2(_)

Pow2(n) == IF n = 0 THEN 1 ELSE 2 * Pow2(n - 1)

\* The values of u32 and of u64.
U32 == 0 .. Pow2(HalfBits) - 1

U64 == 0 .. Pow2(2 * HalfBits) - 1

\* x as u32: the low half is kept.
AsU32(x) == x % Pow2(HalfBits)

\* x as u64
AsU64(x) == x % Pow2(2 * HalfBits)

\* x >> n and x << n of u64: the bits shifted out are lost.
Shr(x, n) == x \div Pow2(n)

Shl(x, n) == AsU64(x * Pow2(n))

RECURSIVE BitOr(_, _)

\* a | b
BitOr(a, b) ==
    IF a = 0 THEN b
    ELSE IF b = 0 THEN a
    ELSE (IF a % 2 = 1 \/ b % 2 = 1 THEN 1 ELSE 0)
             + 2 * BitOr(a \div 2, b \div 2)

\* Fault: a split that does not shift the peer down.
split_no_shift(id) == [peer |-> AsU32(id), pid |-> AsU32(id)]

\* ProcessId::split
split(id) == [peer |-> AsU32(Shr(id, HalfBits)), pid |-> AsU32(id)]

\* ProcessId::from_peer_process
from_peer_process(peer, pid) ==
    BitOr(Shl(AsU64(peer), HalfBits), AsU64(pid))

\* The step is a conversion of a ProcessId.
OnlyTheIds ==
    /\ RegistryUntouched
    /\ ConnectionUntouched
    /\ StoreUntouched
    /\ HandshakeUntouched
    /\ TablesUntouched
    /\ RuntimeUntouched
    /\ LumpsUntouched
    /\ ThreadsUntouched

\* ProcessId::from_peer_process(peer, pid).split()
Joined ==
    /\ \E peer \in U32, pid \in U32 :
          LET id == from_peer_process(peer, pid)
          IN  converted' = [op |-> "from_peer_process", peer |-> peer,
                            pid |-> pid, id |-> id,
                            again |-> [peer |-> split(id).peer,
                                       pid |-> split(id).pid, id |-> id]]
    /\ OnlyTheIds

\* ProcessId::from_peer_process(id.split().0, id.split().1)
Parted ==
    /\ \E id \in U64 :
          LET parts == split(id)
          IN  converted' = [op |-> "split", peer |-> parts.peer,
                            pid |-> parts.pid, id |-> id,
                            again |-> [peer |-> parts.peer, pid |-> parts.pid,
                                       id |-> from_peer_process(parts.peer,
                                                                parts.pid)]]
    /\ OnlyTheIds

NextProcessId ==
    \/ Joined
    \/ Parted

\* Conversions of every ProcessId, PeerId and LocalProcessId.
SpecProcessId == Init /\ [][NextProcessId]_vars

----------------------------------------------------------------------------
(* LumpAbi (crates/hearth-cognito/src/lib.rs)                             *)

\* The handles a guest can name.
GuestHandles == 0 .. Pow2(HandleBits) - 1

\* key as u32
AsHandle(key) == key % Pow2(HandleBits)

Occupied(lump) == [lump |-> lump, next |-> 0]

Vacant(next) == [lump |-> NoLump, next |-> next]

\* Slab::get(key): the slot exists and is occupied.
SlabGet(L, key) ==
    /\ key < Len(L.entries)
    /\ L.entries[key + 1].lump # NoLump

\* Slab::insert(lump): the slot vacated last is filled, or a new one made.
SlabInsert(L, lump) ==
    IF L.next = Len(L.entries)
    THEN [L EXCEPT !.entries = Append(@, Occupied(lump)),
                   !.next = @ + 1]
    ELSE [L EXCEPT !.entries[L.next + 1] = Occupied(lump),
                   !.next = L.entries[L.next + 1].next]

\* Slab::try_remove(key) of an occupied slot
SlabRemove(L, key) ==
    [L EXCEPT !.entries[key + 1] = Vacant(L.next),
              !.next = key]

\* Err(anyhow!(..)) and Ok(value)
Err(L) == [L EXCEPT !.ok = FALSE, !.value = 0, !.written = NoLump]

Ok(L, value) == [L EXCEPT !.ok = TRUE, !.value = value, !.written = NoLump]

\* The lump of handle is put into the guest's memory.
Write(L, handle) == [L EXCEPT !.written = L.entries[handle + 1].lump]

\* The guest was given handle: it is free no more.
Returned(L, handle) == [L EXCEPT !.freed = @ \ {handle}]

\* Fault: a from_id that makes the handle before it looks for the lump.
from_id_insert_first(L, id, readable) ==
    IF ~readable THEN Err(L)
    ELSE IF id \notin L.store THEN Err(SlabInsert(L, id))
    ELSE Returned(Ok(SlabInsert(L, id), AsHandle(L.next)), AsHandle(L.next))

\* LumpAbi::from_id: readable is whether id_ptr is in the guest's memory.
from_id(L, id, readable) ==
    IF ~readable THEN Err(L)
    ELSE IF id \notin L.store THEN Err(L)
    ELSE Returned(Ok(SlabInsert(L, id), AsHandle(L.next)), AsHandle(L.next))

\* LumpAbi::load: the bytes at ptr hash to id.
load(L, id, readable) ==
    IF ~readable THEN Err(L)
    ELSE LET L1 == [L EXCEPT !.store = @ \cup {id}]
         IN  Returned(Ok(SlabInsert(L1, id), AsHandle(L.next)),
                      AsHandle(L.next))

\* LumpAbi::get_id
get_id(L, handle, writable) ==
    IF ~SlabGet(L, handle) THEN Err(L)
    ELSE IF ~writable THEN Err(L)
    ELSE Write(Ok(L, 0), handle)

\* LumpAbi::get_len
get_len(L, handle) ==
    IF ~SlabGet(L, handle) THEN Err(L)
    ELSE Ok(L, L.entries[handle + 1].lump)

\* LumpAbi::get_data
get_data(L, handle, writable) ==
    IF ~SlabGet(L, handle) THEN Err(L)
    ELSE IF ~writable THEN Err(L)
    ELSE Write(Ok(L, 0), handle)

\* LumpAbi::free
free(L, handle) ==
    IF ~SlabGet(L, handle) THEN Err(L)
    ELSE [Ok(SlabRemove(L, handle), 0) EXCEPT !.freed = @ \cup {handle}]

\* The step is a call of the guest into its LumpAbi.
OnlyTheLumps ==
    /\ RegistryUntouched
    /\ ConnectionUntouched
    /\ StoreUntouched
    /\ HandshakeUntouched
    /\ TablesUntouched
    /\ RuntimeUntouched
    /\ IdsUntouched
    /\ ThreadsUntouched

\* The LumpAbi becomes L, by call op of handle or hash arg.
Served(L, op, arg) ==
    /\ Len(L.entries) <= MaxLumps
    /\ lump_abi' = [L EXCEPT !.op = op, !.arg = arg,
                             !.was = [store |-> lump_abi.store,
                                      entries |-> lump_abi.entries,
                                      next |-> lump_abi.next]]
    /\ OnlyTheLumps

\* Another process adds a lump to the lump store the guests share.
LumpAdded ==
    \E id \in LumpIds :
        /\ id \notin lump_abi.store
        /\ Served(Ok([lump_abi EXCEPT !.store = @ \cup {id}], 0),
                  "add_lump", id)

FromId ==
    \E id \in LumpIds, readable \in BOOLEAN :
        Served(from_id(lump_abi, id, readable), "from_id", id)

Load ==
    \E id \in LumpIds, readable \in BOOLEAN :
        Served(load(lump_abi, id, readable), "load", id)

GetId ==
    \E handle \in GuestHandles, writable \in BOOLEAN :
        Served(get_id(lump_abi, handle, writable), "get_id", handle)

GetLen ==
    \E handle \in GuestHandles :
        Served(get_len(lump_abi, handle), "get_len", handle)

GetData ==
    \E handle \in GuestHandles, writable \in BOOLEAN :
        Served(get_data(lump_abi, handle, writable), "get_data", handle)

Free ==
    \E handle \in GuestHandles :
        Served(free(lump_abi, handle), "free", handle)

NextLumpAbi ==
    \/ LumpAdded
    \/ FromId
    \/ Load
    \/ GetId
    \/ GetLen
    \/ GetData
    \/ Free

\* A guest and its calls of the hearth::lump module.
SpecLumpAbi == Init /\ [][NextLumpAbi]_vars

----------------------------------------------------------------------------
(* The methods of the store, called by several threads at once and taken  *)
(* apart at their atomic operations and their locks                       *)
(* (crates/hearth-core/src/process/store.rs)                              *)

\* The step is one of a thread in the store.
OnlyTheThreads ==
    /\ RegistryUntouched
    /\ ConnectionUntouched
    /\ HandshakeUntouched
    /\ TablesUntouched
    /\ RuntimeUntouched
    /\ IdsUntouched
    /\ LumpsUntouched

\* The store becomes S by the step of a thread, and the references of the
\* clients H.
StepsWith(S, H) ==
    /\ entries' = S.entries
    /\ is_alive' = S.is_alive
    /\ ref_count' = S.ref_count
    /\ linked' = S.linked
    /\ open' = S.open
    /\ mailbox' = S.mailbox
    /\ next_key' = S.next_key
    /\ panicked' = S.panicked
    /\ trace' = S.trace
    /\ before' = Snapshot
    /\ held' = H
    /\ last' = Call("step", NoHandle, NoHandle, <<>>)
    /\ OnlyTheThreads

\* The store becomes S by the step of a thread.
Steps(S) == StepsWith(S, held)

\* Thread t goes on as thread record th.
Goes(t, th) == race' = [race EXCEPT !.thread[t] = th]

\* Thread t is at place where.
At(t, where) == race.thread[t].pc = where

\* A thread calls kill, link or send, with references that it holds; the
\* first call ends the time the store had one caller.
Begin ==
    /\ ~panicked
    /\ \E t \in Threads :
          /\ At(t, "idle")
          /\ race.thread[t].op = "none"
          /\ \E op \in {"kill", "link", "send"}, h \in Handles,
                o \in Handles :
                /\ held[h] >= 1
                /\ IF op = "link" THEN held[o] >= 1 ELSE o = h
                /\ race' =
                      [race EXCEPT
                          !.racing = TRUE,
                          !.start = IF race.racing THEN @
                                    ELSE [is_alive |-> is_alive,
                                          linked |-> linked],
                          !.thread[t] =
                              [Idle EXCEPT
                                  !.op = op, !.h = h,
                                  !.o = IF op = "link" THEN o ELSE NoHandle,
                                  !.pc = IF op = "kill" THEN "swap"
                                         ELSE IF op = "link" THEN "lock"
                                         ELSE "load",
                                  !.target = IF op = "send" THEN h
                                             ELSE NoHandle,
                                  !.signal = IF op = "send"
                                             THEN SigMessage(<<>>)
                                             ELSE NoSignal,
                                  !.next = "done"]]
    /\ Steps(Store)

\* Fault: a kill that goes on whatever the swap returned.
KillSwap_any(t) ==
    /\ At(t, "swap")
    /\ Goes(t, [race.thread[t] EXCEPT !.swapped = TRUE,
                                      !.pc = "kill_signal"])
    /\ Steps([Store EXCEPT !.is_alive[race.thread[t].h] = FALSE])

\* kill: if entry.is_alive.swap(false, Ordering::SeqCst) {
KillSwap(t) ==
    /\ At(t, "swap")
    /\ Goes(t, [race.thread[t] EXCEPT
                    !.swapped = is_alive[race.thread[t].h],
                    !.pc = IF is_alive[race.thread[t].h] THEN "kill_signal"
                           ELSE "done"])
    /\ Steps([Store EXCEPT !.is_alive[race.thread[t].h] = FALSE])

Swaps == \E t \in Threads : KillSwap(t)

\* The calls of on_signal that S.trace holds, made by thread t.
Deliveries(S, t) ==
    LET calls == SelectSeq(S.trace, LAMBDA e : e.ev = "on_signal")
    IN  [i \in DOMAIN calls |->
            [by |-> t, h |-> calls[i].h, sig |-> calls[i].sig]]

\* kill: entry.inner.on_signal(&self.entries_data, Signal::Kill);
KillSignal ==
    \E t \in Threads :
        /\ At(t, "kill_signal")
        /\ LET S == on_signal(Store, race.thread[t].h, SigKill)
           IN  /\ race' = [race EXCEPT
                              !.thread[t].pc = "kill_lock",
                              !.delivered = @ \o Deliveries(S, t)]
               /\ Steps(S)

\* kill: entry.linked.lock(), held until the list is drained
KillLock ==
    \E t \in Threads :
        /\ At(t, "kill_lock")
        /\ race.lock[race.thread[t].h] = NoThread
        /\ race' = [race EXCEPT
                       !.lock[race.thread[t].h] = t,
                       !.thread[t].pc = "drain",
                       !.thread[t].links = linked[race.thread[t].h]]
        /\ Steps(Store)

\* Fault: a kill that walks the link list (iter()) and leaves it as it is.
DrainLinks_keep ==
    \E t \in Threads :
        /\ At(t, "drain")
        /\ LET th == race.thread[t]
           IN  IF th.links = <<>>
               THEN /\ race' = [race EXCEPT !.lock[th.h] = NoThread,
                                            !.thread[t].pc = "done"]
                    /\ Steps(Store)
               ELSE /\ race' = [race EXCEPT
                                  !.thread[t].links = Tail(@),
                                  !.thread[t].target = Head(th.links),
                                  !.thread[t].signal = SigUnlink(th.h),
                                  !.thread[t].next = "drain",
                                  !.thread[t].pc = "load"]
                    /\ Steps(Store)

\* kill: for link in ...drain(..) { self.send_signal(link, Unlink) }: the
\* next link is taken off the list, or the list is empty and the lock is
\* released.
DrainLinks ==
    \E t \in Threads :
        /\ At(t, "drain")
        /\ LET th == race.thread[t]
           IN  IF th.links = <<>>
               THEN /\ race' = [race EXCEPT !.lock[th.h] = NoThread,
                                            !.thread[t].pc = "done"]
                    /\ Steps([Store EXCEPT !.linked[th.h] = <<>>])
               ELSE /\ race' = [race EXCEPT
                                  !.thread[t].links = Tail(@),
                                  !.thread[t].target = Head(th.links),
                                  !.thread[t].signal = SigUnlink(th.h),
                                  !.thread[t].next = "drain",
                                  !.thread[t].pc = "load"]
                    /\ Steps([Store EXCEPT !.linked[th.h] = Tail(@)])

\* Fault: a link that does not take the lock of the link list.
LinkLock_none(t) ==
    /\ At(t, "lock")
    /\ race' = [race EXCEPT !.thread[t].pc = "link_load"]
    /\ Steps(Store)

\* link: let mut linked = entry.linked.lock();
LinkLock(t) ==
    /\ At(t, "lock")
    /\ race.lock[race.thread[t].h] = NoThread
    /\ race' = [race EXCEPT !.lock[race.thread[t].h] = t,
                            !.thread[t].pc = "link_load"]
    /\ Steps(Store)

Locks == \E t \in Threads : LinkLock(t)

\* link: if entry.is_alive.load(Ordering::SeqCst) {
LinkLoad ==
    \E t \in Threads :
        /\ At(t, "link_load")
        /\ race' = [race EXCEPT
                       !.thread[t].pc = IF is_alive[race.thread[t].h]
                                        THEN "push" ELSE "link_inc"]
        /\ Steps(Store)

\* link: if !linked.contains(&object) { self.inc_ref(object);
\* linked.push(object); } and the lock is released.
LinkPush ==
    \E t \in Threads :
        /\ At(t, "push")
        /\ LET th == race.thread[t]
               S == inc_ref(Store, th.o)
           IN  /\ race' = [race EXCEPT
                              !.lock[th.h] = IF @ = t THEN NoThread ELSE @,
                              !.thread[t].pc = "done"]
               /\ IF Contains(linked[th.h], th.o) THEN Steps(Store)
                  ELSE /\ Fits(S)
                       /\ Steps(IF S.panicked THEN S
                                ELSE [S EXCEPT !.linked[th.h] =
                                                  Append(@, th.o)])

\* link: } else { self.inc_ref(object); self.send_signal(object, Unlink)
LinkInc ==
    \E t \in Threads :
        /\ At(t, "link_inc")
        /\ LET th == race.thread[t]
           IN  /\ Fits(inc_ref(Store, th.o))
               /\ race' = [race EXCEPT
                              !.thread[t].target = th.o,
                              !.thread[t].signal = SigUnlink(th.h),
                              !.thread[t].next = "unlock",
                              !.thread[t].pc = "load"]
               /\ Steps(inc_ref(Store, th.o))

\* link returns: the guard of the lock is dropped.
LinkUnlock ==
    \E t \in Threads :
        /\ At(t, "unlock")
        /\ race' = [race EXCEPT
                       !.lock[race.thread[t].h] =
                           IF @ = t THEN NoThread ELSE @,
                       !.thread[t].pc = "done"]
        /\ Steps(Store)

\* send_signal: if !entry.is_alive.load(Ordering::SeqCst) {
SignalLoad ==
    \E t \in Threads :
        /\ At(t, "load")
        /\ race' = [race EXCEPT
                       !.thread[t].alive = is_alive[race.thread[t].target],
                       !.thread[t].pc = "signal"]
        /\ Steps(Store)

\* send_signal: signal.free(self); return; or the call of on_signal, and
\* the free of a signal it hands back.
SignalDeliver ==
    \E t \in Threads :
        /\ At(t, "signal")
        /\ LET th == race.thread[t]
               S == IF ~th.alive THEN SignalFree(Store, th.signal)
                    ELSE IF OnSignalAccepts(Store, th.target)
                         THEN on_signal(Store, th.target, th.signal)
                         ELSE SignalFree(on_signal(Store, th.target,
                                                   th.signal),
                                         th.signal)
           IN  /\ S.ref_count[th.h] <= MaxRef
               /\ race' = [race EXCEPT
                              !.thread[t].pc = th.next,
                              !.delivered = @ \o Deliveries(S, t)]
               /\ Steps(S)

\* Fault: a send that overtakes the send the thread made before it: the
\* second message is handed to on_signal while the first is on its way.
SendAgain_early(t) ==
    /\ ~panicked
    /\ At(t, "signal")
    /\ LET th == race.thread[t]
           S == on_signal(Store, th.h, SigData(th.signal.data + 1))
       IN  /\ th.op = "send"
           /\ th.alive
           /\ th.signal.data + 1 < MaxSends
           /\ race' = [race EXCEPT !.thread[t].op = "sent",
                                   !.delivered = @ \o Deliveries(S, t)]
           /\ Steps(S)

\* The thread's send has returned and it calls send again, of the same
\* handle and with the next message.
SendAgain(t) ==
    /\ ~panicked
    /\ At(t, "done")
    /\ LET th == race.thread[t]
       IN  /\ th.op = "send"
           /\ th.signal.data + 1 < MaxSends
           /\ race' = [race EXCEPT
                          !.thread[t].signal = SigData(th.signal.data + 1),
                          !.thread[t].target = th.h,
                          !.thread[t].next = "done",
                          !.thread[t].pc = "load"]
    /\ Steps(Store)

SendsAgain == \E t \in Threads : SendAgain(t)

\* Thread t is in a call of the store.
InFlight(t) == race.thread[t].pc \notin {"idle", "done"}

\* Thread t is in a call that uses a reference to h of the clients.
Uses(t, h) ==
    /\ InFlight(t)
    /\ race.thread[t].op \in {"kill", "link", "send", "inc_ref"}
    /\ h \in {race.thread[t].h, race.thread[t].o}

\* A thread calls inc_ref or dec_ref, with a reference that it holds; a
\* reference that a call of another thread uses is not given up.
BeginRef ==
    /\ ~panicked
    /\ \E t \in Threads :
          /\ At(t, "idle")
          /\ race.thread[t].op = "none"
          /\ \E op \in {"inc_ref", "dec_ref"}, h \in Handles :
                /\ held[h] >= 1
                /\ op = "dec_ref" =>
                      held[h] >= 2 \/ \A u \in Threads : ~Uses(u, h)
                /\ race' =
                      [race EXCEPT
                          !.racing = TRUE,
                          !.start = IF race.racing THEN @
                                    ELSE [is_alive |-> is_alive,
                                          linked |-> linked],
                          !.thread[t] =
                              [Idle EXCEPT
                                  !.op = op, !.h = h, !.target = h,
                                  !.pc = IF op = "inc_ref" THEN "inc"
                                         ELSE "fetch_sub"]]
                /\ StepsWith(Store, IF op = "dec_ref"
                                    THEN [held EXCEPT ![h] = @ - 1]
                                    ELSE held)

\* inc_ref: self.get(handle).ref_count.fetch_add(1, Ordering::Release);
IncRefAdd ==
    \E t \in Threads :
        /\ At(t, "inc")
        /\ LET th == race.thread[t]
           IN  /\ race' = [race EXCEPT !.thread[t].pc = "done"]
               /\ StepsWith(inc_ref(Store, th.h),
                            [held EXCEPT ![th.h] = @ + 1])

\* Where a call of dec_ref returns to: the walk of the link list that made
\* it, or the caller.
Back(th) == IF th.stack = <<>> THEN "done" ELSE "cascade"

\* dec_ref: if process.ref_count.fetch_sub(1, Ordering::SeqCst) == 1 {
DecRefSub ==
    \E t \in Threads :
        /\ At(t, "fetch_sub")
        /\ LET th == race.thread[t]
           IN  IF ~Get(Store, th.target)
               THEN /\ race' = race
                    /\ Steps(Panic(Store))
               ELSE /\ race' = [race EXCEPT
                                  !.thread[t].pc =
                                      IF ref_count[th.target] = 1
                                      THEN "remove_lock" ELSE Back(th)]
                    /\ Steps([Store EXCEPT !.ref_count[th.target] =
                                              FetchSub(@)])

\* Fault: a dec_ref that takes the lock of the list to read its length
\* and, still holding it, goes on to take it again for the walk.
DecRefLock_twice(t) ==
    /\ At(t, "remove_lock")
    /\ race.lock[race.thread[t].target] = NoThread
    /\ race' = [race EXCEPT !.lock[race.thread[t].target] = t]
    /\ Steps(Store)

\* dec_ref: process.inner.on_remove(..); for link in
\* process.linked.lock().iter() {: the lock is taken and held for the walk.
DecRefLock(t) ==
    /\ At(t, "remove_lock")
    /\ race.lock[race.thread[t].target] = NoThread
    /\ LET th == race.thread[t]
       IN  race' = [race EXCEPT
                       !.lock[th.target] = t,
                       !.thread[t].pc = "cascade",
                       !.thread[t].stack =
                           <<[h |-> th.target,
                              links |-> linked[th.target]]>> \o @]
    /\ Steps(Store)

DecRefLocks == \E t \in Threads : DecRefLock(t)

\* dec_ref: self.dec_ref(*link) for the next link of the list, or at its
\* end the lock is released and self.entries.remove(handle) is called.
DecRefCascade ==
    \E t \in Threads :
        /\ At(t, "cascade")
        /\ LET th == race.thread[t]
               top == Head(th.stack)
           IN  IF top.links = <<>>
               THEN /\ race' = [race EXCEPT
                                  !.lock[top.h] = NoThread,
                                  !.thread[t].stack = Tail(@),
                                  !.thread[t].pc =
                                      IF Tail(th.stack) = <<>> THEN "done"
                                      ELSE "cascade"]
                    /\ Steps(Remove(Store, top.h))
               ELSE /\ race' = [race EXCEPT
                                  !.thread[t].stack =
                                      <<[top EXCEPT !.links = Tail(@)]>>
                                          \o Tail(th.stack),
                                  !.thread[t].target = Head(top.links),
                                  !.thread[t].pc = "fetch_sub"]
                    /\ Steps(Store)

\* The store has had one caller at a time so far.
Alone == ~race.racing

\* Calls that return before the next is made set the store up.
InsertAlone == Alone /\ Insert

LinkAlone == Alone /\ Link

KillAlone == Alone /\ Kill

NextThreads ==
    \/ InsertAlone
    \/ LinkAlone
    \/ KillAlone
    \/ Begin
    \/ Swaps
    \/ KillSignal
    \/ KillLock
    \/ DrainLinks
    \/ Locks
    \/ LinkLoad
    \/ LinkPush
    \/ LinkInc
    \/ LinkUnlock
    \/ SignalLoad
    \/ SignalDeliver

\* The store and threads that call kill, link and send at the same time.
SpecThreads == Init /\ [][NextThreads]_vars

NextFifo ==
    \/ NextThreads
    \/ SendsAgain

\* The store and threads that call kill, link and send at the same time,
\* and send again when their send has returned.
SpecFifo == Init /\ [][NextFifo]_vars

\* Calls of dec_ref that return before the next call is made.
DecRefAlone == Alone /\ DecRef

NextLocks ==
    \/ NextThreads
    \/ DecRefAlone
    \/ BeginRef
    \/ IncRefAdd
    \/ DecRefSub
    \/ DecRefLocks
    \/ DecRefCascade

\* The store and threads that call kill, link, send, inc_ref and dec_ref
\* at the same time.
SpecLocks == Init /\ [][NextLocks]_vars

\* The methods of the store.
StoreCall ==
    \/ Insert
    \/ Send
    \/ Kill
    \/ Link
    \/ IncRef
    \/ DecRef

Next ==
    \/ StoreCall
    \/ ReceiveMessage
    \/ ReceiveKill
    \/ ReceiveUnlink
    \/ CloneFree

\* The store with receivers that leave the subject of an Unlink alone.
Spec == Init /\ [][Next]_vars

NextOwn ==
    \/ StoreCall
    \/ ReceiveMessage
    \/ ReceiveKill
    \/ TakeUnlink
    \/ CloneFree

\* The store with receivers that own, and free, the subject of every Unlink
\* delivered to them.
SpecOwn == Init /\ [][NextOwn]_vars

\* The calls of clients that reach the store through capabilities alone:
\* they make processes, copy and free capabilities, send and kill.
NextCapability ==
    \/ Insert
    \/ IncRef
    \/ DecRef
    \/ CapabilitySend
    \/ CapabilityKill
    \/ ReceiveMessage
    \/ ReceiveKill

\* The store behind capabilities with permission bits.
SpecCapability == Init /\ [][NextCapability]_vars

NextConnection ==
    \/ ExportRoot
    \/ ConnectionSend
    \/ ConnectionReceive

\* Two peers and the connection between them.
SpecConnection == Init /\ [][NextConnection]_vars

\* The calls the clients of a registry make on its store (its tests:
\* insert_mock, kill, Capability::free) and on the registry.
NextRegistry ==
    \/ Insert
    \/ Kill
    \/ DecRef
    \/ RegistryInsert
    \/ RegistryGet
    \/ RegistryRemove
    \/ RegistryDrop

\* The store and a registry of services that shares it.
SpecRegistry == Init /\ [][NextRegistry]_vars

NextRpc ==
    \/ NextRegistry
    \/ DeregisterService

\* The store, a registry of services that shares it and the process API
\* that takes services out of it.
SpecRpc == Init /\ [][NextRpc]_vars

----------------------------------------------------------------------------
(* Receivers that free the signals they are delivered *)

\* mailbox.try_recv() of an Unlink by a receiver that frees it the way the
\* store frees a signal: signal.free(store).
FreeUnlink ==
    /\ ~panicked
    /\ \E h \in Handles :
          /\ mailbox[h] # <<>>
          /\ Head(mailbox[h]).kind = "Unlink"
          /\ Becomes(SignalFree([Store EXCEPT !.mailbox[h] = Tail(@)],
                                Head(mailbox[h])))
          /\ held' = held
          /\ last' = Call("free", h, Head(mailbox[h]).subject, <<>>)
          /\ OnlyTheStore

\* store.link(subject, object) on a subject that is alive.
LinkLive == Link /\ before'.is_alive[last'.h]

\* store.link(subject, object) on a subject that is dead.
LinkDead == Link /\ ~before'.is_alive[last'.h]

\* The store with receivers that free each Unlink, and clients that link
\* live subjects only: every Unlink is one a kill has sent.
NextKillFree ==
    \/ Insert
    \/ LinkLive
    \/ Kill
    \/ IncRef
    \/ DecRef
    \/ ReceiveKill
    \/ FreeUnlink

SpecKillFree == Init /\ [][NextKillFree]_vars

\* The store with receivers that free each Unlink, and clients that link
\* dead subjects only: every Unlink is one a link has sent.
NextLinkDead ==
    \/ Insert
    \/ LinkDead
    \/ Kill
    \/ IncRef
    \/ DecRef
    \/ ReceiveKill
    \/ FreeUnlink

SpecLinkDead == Init /\ [][NextLinkDead]_vars

----------------------------------------------------------------------------
(* What the last call did, read off last, before and trace *)

\* The last call was method op on a handle that was valid.
Called(op) == last.op = op /\ last.h \in before.entries

\* How many times on_signal of entry o was invoked with signal sig.
Invoked(o, sig) ==
    Cardinality({i \in DOMAIN trace :
        trace[i].ev = "on_signal" /\ trace[i].h = o /\ trace[i].sig = sig})

\* How many times on_signal of entry o took signal sig (returned None).
Accepted(o, sig) ==
    Cardinality({i \in DOMAIN trace :
        /\ trace[i].ev = "on_signal"
        /\ trace[i].h = o
        /\ trace[i].sig = sig
        /\ trace[i].ok})

\* How many times on_signal, of any entry, was invoked with signal sig.
InvokedAny(sig) ==
    Cardinality({i \in DOMAIN trace :
        trace[i].ev = "on_signal" /\ trace[i].sig = sig})

\* How many times on_signal, of any entry, took signal sig.
AcceptedAny(sig) ==
    Cardinality({i \in DOMAIN trace :
        trace[i].ev = "on_signal" /\ trace[i].sig = sig /\ trace[i].ok})

\* How many times Signal::free was called on signal sig.
Freed(sig) ==
    Cardinality({i \in DOMAIN trace :
        trace[i].ev = "free" /\ trace[i].sig = sig})

\* How many times event ev happened to handle h.
Happened(ev, h) ==
    Cardinality({i \in DOMAIN trace : trace[i].ev = ev /\ trace[i].h = h})

IsCapFree(e) == e.ev = "cap_free"

\* The capabilities freed, in order.
CapFrees ==
    LET fs == SelectSeq(trace, IsCapFree)
    IN  [i \in DOMAIN fs |-> fs[i].h]

\* The entries are as they were before the last call.
StoreUnchanged ==
    /\ entries = before.entries
    /\ is_alive = before.is_alive
    /\ ref_count = before.ref_count
    /\ linked = before.linked
    /\ mailbox = before.mailbox

----------------------------------------------------------------------------
(* The claims *)

UnlinkToEveryLinked ==
    (Called("kill") /\ before.is_alive[last.h]) =>
        \A i \in DOMAIN before.linked[last.h] :
            Invoked(before.linked[last.h][i], SigUnlink(last.h)) = 1

\* C2 as amended: when a live process p is killed, on_signal of every
\* process in its link list that is alive when the kill reaches it (so not
\* p itself) is invoked exactly once with Unlink{p}; a linked process that
\* is dead, or is p, gets none, and the signal meant for it is freed.
UnlinkToEveryLiveLinked ==
    (Called("kill") /\ before.is_alive[last.h]) =>
        LET p == last.h
            objects == {before.linked[p][i] : i \in DOMAIN before.linked[p]}
            live == {o \in objects : before.is_alive[o] /\ o # p}
        IN  /\ \A o \in Handles :
                  Invoked(o, SigUnlink(p)) = IF o \in live THEN 1 ELSE 0
            /\ Freed(SigUnlink(p)) =
                  Cardinality(objects \ live)
                      + Cardinality({o \in live : ~open[o]})

\* A process linked to itself and to a live process was killed.
UnlinkToEveryLiveLinkedWitness ==
    /\ Called("kill")
    /\ before.is_alive[last.h]
    /\ \E o \in Handles :
          /\ o # last.h
          /\ before.is_alive[o]
          /\ Contains(before.linked[last.h], o)
          /\ Contains(before.linked[last.h], last.h)
          /\ Invoked(o, SigUnlink(last.h)) = 1

LinkDeduplicated ==
    /\ \A h \in Handles : NoDuplicates(linked[h])
    /\ (Called("link") /\ before.is_alive[last.h]) =>
          IF Contains(before.linked[last.h], last.o)
          THEN trace = <<>> /\ StoreUnchanged
          ELSE /\ linked[last.h] = Append(before.linked[last.h], last.o)
               /\ ref_count[last.o] = before.ref_count[last.o] + 1
               /\ Happened("inc_ref", last.o) = 1
    /\ (Called("kill") /\ before.is_alive[last.h]) =>
          \A b \in Handles :
              /\ Invoked(b, SigUnlink(last.h)) <= 1
              /\ (/\ Contains(before.linked[last.h], b)
                  /\ before.is_alive[b]
                  /\ b # last.h)
                     => Invoked(b, SigUnlink(last.h)) = 1

\* link(a, b) was called with b already in the list of a, alive.
LinkDeduplicatedWitness ==
    /\ Called("link")
    /\ before.is_alive[last.h]
    /\ last.o # last.h
    /\ Contains(before.linked[last.h], last.o)

\* C5: link(s, o) with s dead and o alive invokes on_signal of o with
\* Unlink{subject = s} once, within the call, and leaves the link list of
\* s as it was, without o.
LinkDeadSubject ==
    (Called("link") /\ ~before.is_alive[last.h] /\ before.is_alive[last.o]) =>
        /\ Invoked(last.o, SigUnlink(last.h)) = 1
        /\ InvokedAny(SigUnlink(last.h)) = 1
        /\ open[last.o] =>
              mailbox[last.o] =
                  Append(before.mailbox[last.o], SigUnlink(last.h))
        /\ linked[last.h] = before.linked[last.h]
        /\ ~Contains(linked[last.h], last.o)

\* link(s, o) was called with s dead and o alive and listening.
LinkDeadSubjectWitness ==
    /\ Called("link")
    /\ ~before.is_alive[last.h]
    /\ before.is_alive[last.o]
    /\ open[last.o]

\* No reference to h is left but the one a link list may hold: the clients
\* hold none and no unread message carries one.
OnlyLinked(h) ==
    /\ held[h] = 0
    /\ \A g \in Handles : \A i \in DOMAIN mailbox[g] :
          ~Contains(mailbox[g][i].caps, h)

\* C6: two entries a and b that were linked to each other, link(a, b) and
\* link(b, a), and never killed, are removed from the store once the
\* external references to them are dropped; no state keeps such a pair.
CyclicLinkCleanup ==
    \A a, b \in Handles :
        (/\ a # b
         /\ OnlyLinked(a)
         /\ OnlyLinked(b)
         /\ mailbox[a] = <<>>
         /\ mailbox[b] = <<>>)
            => ~(/\ a \in entries
                 /\ b \in entries
                 /\ linked[a] = <<b>>
                 /\ linked[b] = <<a>>)

\* C7: an entry is in the store exactly when its reference count is above
\* zero; the dec_ref that finds the count 1 removes the entry, on_remove is
\* called once for an entry and only by the call that removes it; an entry
\* with references left, dead or alive, stays, and insert hands out a key
\* that no entry holds.
PresentIffReferenced ==
    /\ \A h \in Handles : h \in entries <=> ref_count[h] > 0
    /\ \A h \in before.entries :
          /\ Happened("on_remove", h) = (IF h \in entries THEN 0 ELSE 1)
          /\ h \notin entries =>
                Happened("dec_ref", h) = before.ref_count[h]
    /\ (Called("dec_ref") /\ before.ref_count[last.h] = 1) =>
          last.h \notin entries
    /\ (Called("dec_ref") /\ before.ref_count[last.h] > 1) =>
          last.h \in entries
    /\ last.op = "insert" =>
          /\ last.h \notin before.entries
          /\ entries = before.entries \cup {last.h}

\* The last reference to a dead entry was dropped, and the entry removed.
PresentIffReferencedWitness ==
    /\ Called("dec_ref")
    /\ before.ref_count[last.h] = 1
    /\ ~before.is_alive[last.h]
    /\ last.h \notin entries
    /\ entries # {}

\* C8: the entry insert adds is alive; an entry is dead once kill has been
\* called on it; only kill(h) clears the flag of h, and no call sets the
\* flag of an entry that was dead.
AliveMonotone ==
    /\ last.op = "insert" => IsAlive(Store, last.h)
    /\ Called("kill") => ~IsAlive(Store, last.h)
    /\ \A h \in before.entries :
          /\ ~before.is_alive[h] => ~is_alive[h]
          /\ (before.is_alive[h] /\ h \in entries /\ ~is_alive[h]) =>
                (last.op = "kill" /\ last.h = h)

\* A call other than kill was made on a dead entry, which stays.
AliveMonotoneWitness ==
    /\ last.op \in {"send", "link", "inc_ref", "dec_ref"}
    /\ last.h \in before.entries
    /\ ~before.is_alive[last.h]
    /\ last.h \in entries

\* The signals the last call handed to send_signal, as pairs of target and
\* signal.
Handed ==
    IF Called("send") THEN {<<last.h, SigMessage(last.caps)>>}
    ELSE IF Called("kill") /\ before.is_alive[last.h]
         THEN {<<before.linked[last.h][i], SigUnlink(last.h)>> :
                   i \in DOMAIN before.linked[last.h]}
    ELSE IF Called("link") /\ ~before.is_alive[last.h]
         THEN {<<last.o, SigUnlink(last.h)>>}
    ELSE {}

\* The signals among the pairs of set H.
SignalsOf(H) == {p[2] : p \in H}

\* C9 as claimed: of every signal handed to the store, either on_signal is
\* invoked once with it or it is freed once, and never both.
SignalConservation ==
    /\ \A p \in Handed : Invoked(p[1], p[2]) <= 1
    /\ \A sig \in SignalsOf(Handed) :
          InvokedAny(sig) + Freed(sig) =
              Cardinality({p \in Handed : p[2] = sig})

\* C9 as amended: of every signal handed to the store, on_signal is invoked
\* with it at most once, and either on_signal takes it or the store frees
\* it once, never both and never neither; a signal that on_signal rejects
\* is both passed to on_signal and freed, and a signal for a dead target is
\* freed without on_signal.
SignalTakenOrFreed ==
    /\ \A p \in Handed :
          /\ Invoked(p[1], p[2]) =
                (IF before.is_alive[p[1]] /\ ~(Called("kill") /\ p[1] = last.h)
                 THEN 1 ELSE 0)
          /\ Accepted(p[1], p[2]) = (IF open[p[1]] THEN Invoked(p[1], p[2]) ELSE 0)
    /\ \A sig \in SignalsOf(Handed) :
          /\ AcceptedAny(sig) + Freed(sig) =
                Cardinality({p \in Handed : p[2] = sig})
          /\ Freed(sig) =
                Cardinality({p \in Handed :
                    p[2] = sig /\ Accepted(p[1], p[2]) = 0})

\* A message was sent to a live entry whose receiver is gone.
SignalTakenOrFreedWitness ==
    /\ Called("send")
    /\ before.is_alive[last.h]
    /\ ~open[last.h]
    /\ Invoked(last.h, SigMessage(last.caps)) = 1
    /\ Freed(SigMessage(last.caps)) = 1

\* C10: while an entry is in the store its count is 1 + the inc_ref calls
\* - the dec_ref calls made on it, so the dec_ref calls exceed the inc_ref
\* calls plus one exactly when a dec_ref is made on a handle that has been
\* removed: clients that free each reference they own once never do that.
ReferenceBalance ==
    \A i \in DOMAIN trace : trace[i].ev = "dec_ref" => trace[i].ok

\* Entry s was linked to entry o, another one, when the last call was made.
LinkedTo(s, o) ==
    /\ s # o
    /\ s \in before.entries
    /\ o \in before.entries
    /\ Contains(before.linked[s], o)

\* C11: the object of a link keeps the subject referenced: the dec_ref that
\* drops the only external reference to a subject linked to an object does
\* not remove the subject while the object is still in the store.
LinkObjectHoldsReference ==
    (/\ Called("dec_ref")
     /\ before.ref_count[last.h] = 1
     /\ \E o \in entries : LinkedTo(last.h, o))
        => last.h \in entries

\* C12: link lists own their targets: every handle o in the link list of an
\* entry s of the store is itself in the store, with a reference count of
\* at least the number of link lists that hold it; a dec_ref of o leaves o
\* in the store while some entry that stays lists it; and the removal of s
\* releases the references of its list: the dec_ref calls made on o by a
\* call are the client's own, one for each capability freed and one for
\* each entry removed that listed o.
LinkSetsOwnTargets ==
    /\ \A s \in entries : \A i \in DOMAIN linked[s] :
          LET o == linked[s][i]
          IN  /\ o \in entries
              /\ ref_count[o] >=
                     Cardinality({g \in entries : Contains(linked[g], o)})
    /\ (Called("dec_ref") /\ \E s \in entries : Contains(linked[s], last.h))
          => last.h \in entries
    /\ \A o \in before.entries :
          Happened("dec_ref", o) =
              (IF last.op = "dec_ref" /\ last.h = o THEN 1 ELSE 0)
                  + Count(CapFrees, o)
                  + Cardinality({g \in before.entries \ entries :
                                    Contains(before.linked[g], o)})

\* The last reference to a subject was dropped: the subject was removed and
\* with it the object it listed, which the clients had let go before.
LinkSetsOwnTargetsWitness ==
    /\ Called("dec_ref")
    /\ last.h \notin entries
    /\ \E o \in before.entries \ entries :
          /\ LinkedTo(last.h, o)
          /\ before.ref_count[o] = 1
          /\ held[o] = 0

\* C13: a message sent to a live entry whose on_signal returns it unsent is
\* freed by the store: on_signal was invoked once and took nothing, the
\* signal is freed once, each capability it carries is freed once, in
\* order, each by one dec_ref, and a handle whose only references were
\* carried by the message is removed from the store.
RejectedMessageFreed ==
    (Called("send") /\ before.is_alive[last.h] /\ ~open[last.h]) =>
        /\ Invoked(last.h, SigMessage(last.caps)) = 1
        /\ Accepted(last.h, SigMessage(last.caps)) = 0
        /\ mailbox = before.mailbox
        /\ Freed(SigMessage(last.caps)) = 1
        /\ CapFrees = last.caps
        /\ \A g \in before.entries :
              /\ Happened("dec_ref", g) =
                     Count(last.caps, g)
                         + Cardinality({f \in before.entries \ entries :
                                           Contains(before.linked[f], g)})
              /\ (/\ Count(last.caps, g) >= 1
                  /\ before.ref_count[g] = Count(last.caps, g))
                     => g \notin entries

\* A message that carried the last reference to an entry was sent to a live
\* entry whose receiver is gone, and the entry it referred to was removed.
RejectedMessageFreedWitness ==
    /\ Called("send")
    /\ before.is_alive[last.h]
    /\ ~open[last.h]
    /\ \E g \in before.entries \ entries :
          /\ last.caps = <<g>>
          /\ before.ref_count[g] = 1

\* How many times Signal::clone was called on signal sig.
Cloned(sig) ==
    Cardinality({i \in DOMAIN trace :
        trace[i].ev = "clone" /\ trace[i].sig = sig})

\* C14: Signal::clone and Signal::free are inverse on the reference counts:
\* a signal cloned and its copy freed leaves every entry and every count as
\* it was, with as many dec_ref as inc_ref calls on each handle; the free
\* of an Unlink makes one dec_ref call on its subject.
SignalCloneFreeInverse ==
    last.op = "clone_free" =>
        /\ entries = before.entries
        /\ ref_count = before.ref_count
        /\ \A h \in Handles : Happened("inc_ref", h) = Happened("dec_ref", h)
        /\ \A h \in Handles :
              (Cloned(SigUnlink(h)) = 1 /\ Freed(SigUnlink(h)) = 1)
                  => Happened("dec_ref", h) = 1

----------------------------------------------------------------------------
(* The claims about the registry *)

\* The number of names under which services sv holds a capability to h.
Registered(sv, h) == Cardinality({n \in Names : sv[n].handle = h})

\* C15: Registry::insert returns None for a name that was absent and the
\* capability the name had when it was present, and stores the new one in
\* its place, the other names as they were; it calls no inc_ref and no
\* dec_ref, and every count stays; a later get of the name returns a copy
\* of the capability inserted last, made by one Capability::clone.
ServiceReplacement ==
    /\ last.op = "Registry::insert" =>
          /\ ret = before.services[last.o]
          /\ services = [before.services EXCEPT ![last.o] = last.cap]
          /\ trace = <<>>
          /\ entries = before.entries
          /\ ref_count = before.ref_count
    /\ (last.op = "Registry::get" /\ inserted[last.o] # NoCap) =>
          /\ ret = inserted[last.o]
          /\ Happened("cap_clone", ret.handle) = 1

\* A name that had a capability was given another one.
ServiceReplacementWitness ==
    /\ last.op = "Registry::insert"
    /\ ret # NoCap
    /\ ret.handle # last.cap.handle
    /\ services[last.o] = last.cap

\* C16: get of a name registered to a capability whose process has been
\* killed returns None and takes no reference on the dead process.
DeadServiceNotReturned ==
    (/\ last.op = "Registry::get"
     /\ before.services[last.o] # NoCap
     /\ ~before.is_alive[before.services[last.o].handle])
        => /\ ret = NoCap
           /\ ref_count = before.ref_count

\* C17: a get that returns a capability has incremented the count of its
\* handle by one, by one inc_ref, and no other count, and leaves every
\* registry entry in place; a get of a name that is not registered returns
\* None and calls nothing.
RegistryGetClones ==
    last.op = "Registry::get" =>
        /\ services = before.services
        /\ entries = before.entries
        /\ ret = before.services[last.o]
        /\ ret # NoCap =>
              /\ ref_count =
                     [before.ref_count EXCEPT ![ret.handle] = @ + 1]
              /\ Happened("inc_ref", ret.handle) = 1
              /\ Len(trace) = 2
        /\ before.services[last.o] = NoCap =>
              /\ ret = NoCap
              /\ trace = <<>>
              /\ ref_count = before.ref_count

\* A get returned a capability to an entry that the registry alone
\* referred to.
RegistryGetClonesWitness ==
    /\ last.op = "Registry::get"
    /\ ret # NoCap
    /\ before.ref_count[ret.handle] = 1
    /\ ref_count[ret.handle] = 2
    /\ held[ret.handle] = 1

\* C18: the drop of the registry frees every capability registered, once
\* for each name that has one, each by one dec_ref, and leaves no name; an
\* entry whose only references are those of the registry is removed.
RegistryDropFrees ==
    last.op = "Registry::drop" =>
        /\ \A n \in Names : services[n] = NoCap
        /\ Len(CapFrees) =
              Cardinality({n \in Names : before.services[n] # NoCap})
        /\ \A h \in Handles :
              /\ Happened("cap_free", h) = Registered(before.services, h)
              /\ h \in before.entries =>
                    Happened("dec_ref", h) =
                        Registered(before.services, h)
                            + Cardinality({g \in before.entries \ entries :
                                              Contains(before.linked[g], h)})
              /\ (/\ Registered(before.services, h) >= 1
                  /\ before.ref_count[h] = Registered(before.services, h))
                     => h \notin entries

\* A registry was dropped that held, under two names, the only references
\* to an entry, and the entry was removed.
RegistryDropFreesWitness ==
    /\ last.op = "Registry::drop"
    /\ \E h \in before.entries \ entries :
          /\ Registered(before.services, h) = 2
          /\ before.ref_count[h] = 2

----------------------------------------------------------------------------
(* The claims about capabilities *)

\* C19: the operations of a capability are gated by its permission bits: a
\* send on a capability without the send bit does not reach store.send (no
\* on_signal is invoked, no signal is freed, no mailbox changes) and the
\* capabilities of the message are freed, once each, in order; a kill on a
\* capability without the kill bit changes no alive flag, nor anything.
PermissionGated ==
    /\ (last.op = "Capability::send" /\ "send" \notin last.cap.flags) =>
          /\ \A i \in DOMAIN trace : trace[i].ev \notin {"on_signal", "free"}
          /\ mailbox = before.mailbox
          /\ is_alive = [h \in Handles |-> h \in entries /\ before.is_alive[h]]
          /\ CapFrees = last.caps
    /\ (last.op = "Capability::kill" /\ "kill" \notin last.cap.flags) =>
          /\ is_alive = before.is_alive
          /\ trace = <<>>
          /\ StoreUnchanged

\* A message with a capability was sent on a capability without the send
\* bit to a live entry that would have taken it.
PermissionGatedWitness ==
    /\ last.op = "Capability::send"
    /\ "send" \notin last.cap.flags
    /\ before.is_alive[last.h]
    /\ open[last.h]
    /\ last.caps # <<>>
    /\ mailbox[last.h] = <<>>

----------------------------------------------------------------------------
(* The claims about connections *)

\* C20: a capability that comes back over the connection to the peer that
\* exported it resolves there to the handle it was exported from, with the
\* permissions it was sent with, and no proxy is made for it; so no peer
\* holds a proxy of a process of its own.
RoundTripIdentity ==
    /\ arrived.owner.peer = arrived.at =>
          /\ arrived.cap.handle = arrived.owner.handle
          /\ arrived.cap.flags = arrived.ref.flags
          /\ ~arrived.proxy
    /\ \A p \in Peers : \A id \in DOMAIN peers[p].imports :
          peers[p].owner[peers[p].imports[id]].peer = Other(p)

\* A capability to a process of a peer other than its root came back to
\* the peer, which had sent it out before.
RoundTripIdentityWitness ==
    /\ arrived.at # ""
    /\ arrived.owner.peer = arrived.at
    /\ arrived.owner.handle # Root
    /\ arrived.ref.kind = "ImportedRef"
    /\ arrived.cap \in peers[arrived.at].caps

----------------------------------------------------------------------------
(* The claims about the setup of a connection *)

\* Both tasks have made their Connection.
Established == \A p \in Peers : pc[p] \in Begun

\* C21: on an established connection each side sends one ExportRoot frame,
\* no more: a task has called export_root once when it waits for the root
\* of its peer or has it, and never before its Connection has begun; a
\* task is connected only with the root of its peer; and once both
\* connections have begun, both tasks come to have called export_root.
RootExchange ==
    /\ [](\A p \in Peers :
            /\ roots[p] = (IF pc[p] \in {"wait_root", "connected"} THEN 1
                           ELSE IF pc[p] = "closed" THEN roots[p] ELSE 0)
            /\ roots[p] <= 1
            /\ pc[p] = "connected" => HasPeerRoot(p))
    /\ (Established ~> (\A p \in Peers : roots[p] = 1))
    /\ (Established ~> (\A p \in Peers : pc[p] = "connected"))

\* Both tasks are connected, each with the root of the other.
RootExchangeWitness ==
    /\ \A p \in Peers : pc[p] = "connected" /\ roots[p] = 1
    /\ \A p \in Peers : HasPeerRoot(p)

----------------------------------------------------------------------------
(* C22 *)

\* The last step was the teardown of the connection.
Torn == last.op = "teardown"

\* The place of proxy p in the import table the teardown found.
Place(p) ==
    CHOOSE i \in DOMAIN connection.torn.imports :
        connection.torn.imports[i] = p

\* The teardown left both tables empty, freed the reference of every export
\* once and left no proxy alive.
TablesCleared ==
    /\ connection.exports = <<>>
    /\ connection.imports = <<>>
    /\ \A h \in Handles :
          /\ Happened("revoke", h) = Count(connection.torn.exports, h)
          /\ Happened("dec_ref", h) >= Count(connection.torn.exports, h)
          /\ Contains(connection.torn.exports, h) =>
                \/ h \notin entries
                \/ ref_count[h] < before.ref_count[h]
    /\ \A i \in DOMAIN connection.torn.imports :
          LET p == connection.torn.imports[i]
          IN  /\ ~is_alive[p]
              /\ (before.is_alive[p] /\ p \in entries) =>
                    Invoked(p, SigKill) = 1

\* C22 as claimed: after a connection fails no partial state is left: both
\* tables are empty, the reference of every export on its local handle was
\* decremented once, every import proxy was killed, and every object linked
\* to a proxy received Unlink{proxy}.
NoPartialState ==
    Torn =>
        /\ TablesCleared
        /\ \A i \in DOMAIN connection.torn.imports :
              LET p == connection.torn.imports[i]
              IN  before.is_alive[p] =>
                    \A j \in DOMAIN before.linked[p] :
                        Invoked(before.linked[p][j], SigUnlink(p)) = 1

\* C22 as amended: after a connection fails both tables are empty, the
\* reference of every export was decremented once, every import proxy is
\* dead, and of the objects linked to a proxy that the teardown killed those
\* alive when the kill reached them (so neither the proxy itself nor a proxy
\* killed before it) received Unlink{proxy} exactly once; the others
\* received none.
NoPartialStateForLive ==
    Torn =>
        /\ TablesCleared
        /\ \A i \in DOMAIN connection.torn.imports :
              LET p == connection.torn.imports[i]
                  objects ==
                      {before.linked[p][j] : j \in DOMAIN before.linked[p]}
                  live ==
                      {o \in objects :
                          /\ before.is_alive[o]
                          /\ ~(/\ Contains(connection.torn.imports, o)
                               /\ Place(o) <= i)}
              IN  \A o \in Handles :
                      Invoked(o, SigUnlink(p)) =
                          IF Invoked(p, SigKill) = 1 /\ o \in live
                          THEN 1 ELSE 0

\* A connection with an export and a live proxy was torn down; a live
\* object and the proxy itself were linked to the proxy, and the object got
\* the Unlink.
NoPartialStateForLiveWitness ==
    /\ Torn
    /\ connection.torn.exports # <<>>
    /\ \E p \in Handles, o \in Handles :
          /\ o # p
          /\ Contains(connection.torn.imports, p)
          /\ before.is_alive[p]
          /\ Contains(before.linked[p], o)
          /\ Contains(before.linked[p], p)
          /\ Invoked(p, SigKill) = 1
          /\ Invoked(o, SigUnlink(p)) = 1
          /\ Invoked(p, SigUnlink(p)) = 0
----------------------------------------------------------------------------
(* C23 *)

\* The last call of the builder was add_plugin, made before run, of a type
\* that had a plugin.
AddedTwice ==
    /\ called.op = "add_plugin"
    /\ run.pc = "build"
    /\ contains_key(called.was, called.id)

\* C23: an add_plugin made before run() for a type that is already present
\* does not invoke the build hook and leaves the plugin added first, and
\* all runners and services, as they were.
SecondAddPluginNoOp ==
    AddedTwice =>
        /\ builder.plugins = called.was.plugins
        /\ builder.runners = called.was.runners
        /\ builder.services = called.was.services
        /\ builder.service_num = called.was.service_num
        /\ builder.hooks = called.was.hooks
        /\ builder.built = called.was.built
        /\ builder.made = called.was.made

\* The build hook of a plugin, which had added a runner and a service, ran
\* once; the type of the plugin was added again, by the hook of another
\* plugin.
SecondAddPluginNoOpWitness ==
    /\ AddedTwice
    /\ builder.hooks # <<>>
    /\ builder.built[builder.plugins[called.id]] = 1
    /\ builder.services # {}
    /\ \E i \in DOMAIN builder.runners : builder.runners[i] = NoName
----------------------------------------------------------------------------
(* C24 *)

\* run has left the loop that finishes the plugins.
LoopLeft == run.pc \in {"runners", "wait", "returned"}

\* A runner has been invoked.
RunnerInvoked == \E k \in 1 .. MaxRunners : tasks.at[k] # "none"

\* C24: run() invokes the finish hook of every plugin it finds in the
\* builder, those that finish hooks added included, which it finds on a
\* later iteration; it leaves the loop only when the set of plugins is
\* empty; and every finish hook has returned before the first runner is
\* invoked.
FinishPhaseComplete ==
    /\ [](LoopLeft =>
            /\ builder.plugins = NoPlugins
            /\ run.plugins = NoPlugins
            /\ builder.hooks = <<>>
            /\ \A p \in builder.drained : builder.finished[p] = 1)
    /\ [](RunnerInvoked => LoopLeft)
    /\ \A p \in Plugins :
          (run.pc # "build" /\ \E id \in PluginTypes : builder.plugins[id] = p)
              ~> (builder.finished[p] = 1)
    /\ (run.pc # "build") ~> LoopLeft

\* run went round the loop twice or more, for a plugin that a finish hook
\* had added, and has invoked a runner since.
FinishPhaseCompleteWitness ==
    /\ RunnerInvoked
    /\ run.iterations >= 2
    /\ builder.made >= 2
    /\ \A p \in 1 .. builder.made : builder.finished[p] = 1
----------------------------------------------------------------------------
(* C25 *)

\* The runner of service name, by its place in self.runners.
RunnerOf(name) ==
    CHOOSE k \in DOMAIN builder.runners : builder.runners[k] = name

\* C25: when run() returns, every service that add_service accepted has
\* been spawned, has had its self capability inserted into the registry
\* under its name and has sent its confirmation, and run() has consumed one
\* confirmation for each of them: none is left in the channel.
LiveAfterServicesStarted ==
    run.pc = "returned" =>
        /\ \A name \in builder.services :
              /\ Contains(builder.runners, name)
              /\ Count(builder.runners, name) = 1
              /\ tasks.at[RunnerOf(name)] = "started"
              /\ tasks.registry[name] = RunnerOf(name)
        /\ run.i = Cardinality(builder.services)
        /\ tasks.started = <<>>

\* run returned; its one service was added after a runner that is no
\* service, and a plugin had been added.
LiveAfterServicesStartedWitness ==
    /\ run.pc = "returned"
    /\ builder.service_num = 1
    /\ Len(builder.runners) = 2
    /\ builder.made >= 1
    /\ \E name \in Names : tasks.registry[name] = 2
----------------------------------------------------------------------------
(* C26 *)

\* C26: from_peer_process(peer, pid).split() is (peer, pid) for every peer
\* and pid, and from_peer_process of the two parts of id.split() is id for
\* every id.
ProcessIdBijection ==
    /\ converted.op = "from_peer_process" =>
          /\ converted.again.peer = converted.peer
          /\ converted.again.pid = converted.pid
    /\ converted.op = "split" => converted.again.id = converted.id

\* An id whose halves differ, the upper with its highest bit set, was split
\* and put together again.
ProcessIdBijectionWitness ==
    /\ converted.op = "split"
    /\ converted.id >= Pow2(2 * HalfBits - 1)
    /\ converted.peer # converted.pid
    /\ converted.pid # 0
    /\ converted.id = converted.peer * Pow2(HalfBits) + converted.pid
----------------------------------------------------------------------------
(* C27 *)

\* C27: a call of the lump ABI that returns an error leaves the slab of the
\* guest as it was and writes nothing: from_id of a hash the lump store has
\* not, and get_id, get_len, get_data and free of a handle that is not in
\* the slab, all return an error; and a handle that was freed stays
\* invalid until from_id or load returns it again.
LumpErrorsChangeNothing ==
    /\ ~lump_abi.ok =>
          /\ lump_abi.entries = lump_abi.was.entries
          /\ lump_abi.next = lump_abi.was.next
          /\ lump_abi.store = lump_abi.was.store
          /\ lump_abi.written = NoLump
    /\ (/\ lump_abi.op \in {"get_id", "get_len", "get_data", "free"}
        /\ ~SlabGet(lump_abi.was, lump_abi.arg)) => ~lump_abi.ok
    /\ (lump_abi.op = "from_id" /\ lump_abi.arg \notin lump_abi.was.store) =>
          ~lump_abi.ok
    /\ \A handle \in lump_abi.freed : ~SlabGet(lump_abi, handle)

\* The guest freed a handle twice: the second free failed, and the slab
\* still holds another lump.
LumpErrorsChangeNothingWitness ==
    /\ lump_abi.op = "free"
    /\ ~lump_abi.ok
    /\ lump_abi.arg \in lump_abi.freed
    /\ \E handle \in GuestHandles : SlabGet(lump_abi, handle)
----------------------------------------------------------------------------
(* C28 *)

\* How often the threads called on_signal of entry o with signal sig.
Delivered(o, sig) ==
    Cardinality({i \in DOMAIN race.delivered :
        race.delivered[i].h = o /\ race.delivered[i].sig = sig})

\* Thread t called method op of handles h and o, and the call has returned.
Did(t, op, h, o) ==
    /\ race.thread[t].op = op
    /\ race.thread[t].h = h
    /\ race.thread[t].o = o
    /\ race.thread[t].pc = "done"

\* link(s, o) and kill(s) were called at the same time, s alive and not
\* linked to o, and both have returned; no other call was made.
LinkRacedKill(s, o) ==
    /\ race.start.is_alive[s]
    /\ ~Contains(race.start.linked[s], o)
    /\ \E t \in Threads, u \in Threads :
          /\ t # u
          /\ Did(t, "link", s, o)
          /\ Did(u, "kill", s, NoHandle)
          /\ \A v \in Threads \ {t, u} : race.thread[v].op = "none"

\* C28 as claimed: when link(s, o) races with kill(s), s alive and not yet
\* linked to o, then o receives exactly one Unlink{s} and is not left in
\* the link list of s.
LinkKillRace ==
    \A s \in Handles, o \in Handles :
        LinkRacedKill(s, o) =>
            /\ Delivered(o, SigUnlink(s)) = 1
            /\ ~Contains(linked[s], o)

\* C28 as amended: when link(s, o) races with kill(s), s alive and not yet
\* linked to o, then o is not left in the link list of s, and o receives
\* exactly one Unlink{s} if it is alive and is not s; a dead o, and s
\* itself, receive none: the signal is freed.
LinkKillRaceForLive ==
    \A s \in Handles, o \in Handles :
        LinkRacedKill(s, o) =>
            /\ Delivered(o, SigUnlink(s)) =
                  (IF race.start.is_alive[o] /\ o # s THEN 1 ELSE 0)
            /\ ~Contains(linked[s], o)

\* The kill found s alive and link found it dead: link itself sent the
\* Unlink to o, which is alive.
LinkKillRaceForLiveWitness ==
    \E s \in Handles, o \in Handles :
        /\ LinkRacedKill(s, o)
        /\ o # s
        /\ race.start.is_alive[o]
        /\ \E t \in Threads, u \in Threads :
              /\ Did(t, "link", s, o)
              /\ race.thread[t].next = "unlock"
              /\ Did(u, "kill", s, NoHandle)
              /\ race.thread[u].swapped
        /\ Delivered(o, SigUnlink(s)) = 1
----------------------------------------------------------------------------
(* C29 *)

\* Every thread called kill(h), h alive, and every call has returned.
AllKilled(h) ==
    /\ race.start.is_alive[h]
    /\ \A t \in Threads : Did(t, "kill", h, NoHandle)

\* The objects h was linked to when the calls began.
LinkedAtStart(h) ==
    {race.start.linked[h][i] : i \in DOMAIN race.start.linked[h]}

\* One call of kill had TRUE from its swap, and every on_signal was called
\* by it; on_signal of h was called with Kill once.
OneKillDelivers(h) ==
    /\ Cardinality({t \in Threads : race.thread[t].swapped}) = 1
    /\ \A i \in DOMAIN race.delivered :
          race.thread[race.delivered[i].by].swapped
    /\ Delivered(h, SigKill) = 1

\* C29 as claimed: however many calls of kill(h) are made at the same time,
\* on_signal of h is invoked with Kill exactly once and every object in the
\* link list of h receives exactly one Unlink{h}; only the call whose swap
\* returned true delivers.
ConcurrentKillOnce ==
    \A h \in Handles :
        AllKilled(h) =>
            /\ OneKillDelivers(h)
            /\ \A o \in LinkedAtStart(h) : Delivered(o, SigUnlink(h)) = 1

\* C29 as amended: however many calls of kill(h) are made at the same time,
\* on_signal of h is invoked with Kill exactly once and only the call whose
\* swap returned true delivers; every object in the link list of h that is
\* alive and is not h receives exactly one Unlink{h}, and every other
\* entry none.
ConcurrentKillOnceForLive ==
    \A h \in Handles :
        AllKilled(h) =>
            /\ OneKillDelivers(h)
            /\ \A o \in Handles :
                  Delivered(o, SigUnlink(h)) =
                      IF /\ o \in LinkedAtStart(h)
                         /\ race.start.is_alive[o]
                         /\ o # h
                      THEN 1 ELSE 0
            /\ linked[h] = <<>>

\* Two calls of kill(h), h linked to itself and to a live object: the
\* object has its Unlink, h has none.
ConcurrentKillOnceForLiveWitness ==
    \E h \in Handles, o \in Handles :
        /\ AllKilled(h)
        /\ o # h
        /\ race.start.is_alive[o]
        /\ LinkedAtStart(h) = {o, h}
        /\ Delivered(o, SigUnlink(h)) = 1
        /\ Delivered(h, SigUnlink(h)) = 0
----------------------------------------------------------------------------
(* C30 *)

\* C30 as claimed: in every interleaving of send(h, m), or of the delivery
\* of an Unlink to h, with a kill(h) made at the same time, on_signal of h
\* is never invoked with a Message or an Unlink after it was invoked with
\* Kill.
NoSignalAfterKill ==
    \A i \in DOMAIN race.delivered, j \in DOMAIN race.delivered :
        (/\ i < j
         /\ race.delivered[i].sig = SigKill
         /\ race.delivered[j].h = race.delivered[i].h) =>
            race.delivered[j].sig.kind \notin {"Message", "Unlink"}

----------------------------------------------------------------------------
(* Reference accounting of links *)

\* The capabilities of handle h that lie in the mailbox of entry g.
InMail(g, h) ==
    LET Sum[i \in 0 .. Len(mailbox[g])] ==
            IF i = 0 THEN 0
            ELSE Sum[i - 1] + Count(mailbox[g][i].caps, h)
    IN  Sum[Len(mailbox[g])]

\* The references to h that something still owns: those of the clients,
\* one for each link list that holds h and those that messages carry.
Owned(h) ==
    LET Mail[n \in 0 .. MaxHandles] ==
            IF n = 0 THEN 0 ELSE Mail[n - 1] + InMail(n - 1, h)
    IN  held[h] + Cardinality({g \in entries : Contains(linked[g], h)})
                + Mail[MaxHandles]

\* The count of entry h is the number of references to it that are owned.
Balanced(h) == h \in entries => ref_count[h] = Owned(h)

\* Some mailbox still holds an Unlink.
UnlinkPending ==
    \E g \in Handles : \E i \in DOMAIN mailbox[g] :
        mailbox[g][i].kind = "Unlink"

\* C31 as claimed: kill releases the references of the links it drains:
\* when a receiver has freed the Unlink that the kill of subject s sent it
\* and no Unlink is left unread, the count of the object is what it was
\* before it was linked and the count of s is what it was before the kill:
\* each counts the references that are still owned, no more and no fewer.
KillReleasesLinkReferences ==
    (/\ last.op = "free"
     /\ ~panicked
     /\ ~UnlinkPending)
        => Balanced(last.h) /\ Balanced(last.o)

\* The counts after the Unlink that a link of a dead subject sent is freed
\* and no Unlink is left unread.
LinkToDeadBalanced ==
    (/\ last.op = "free"
     /\ ~panicked
     /\ ~UnlinkPending)
        => Balanced(last.h) /\ Balanced(last.o)

\* C32 as claimed: link(s, o) of a dead subject s and a live object o
\* raises the count of s by one, for the Unlink it sends, and when the
\* receiver has freed that Unlink the counts of s and o are what they were
\* before the link: each counts the references that are still owned.
LinkToDeadAccounting ==
    /\ (/\ Called("link")
        /\ ~panicked
        /\ ~before.is_alive[last.h]
        /\ last.o \in before.entries
        /\ before.is_alive[last.o])
          => ref_count[last.h] = before.ref_count[last.h] + 1
    /\ LinkToDeadBalanced

\* Every process has been killed, every signal delivered has been read and
\* freed by its receiver, and the clients have freed every capability.
Quiescent ==
    /\ ~panicked
    /\ \A h \in entries : ~is_alive[h] /\ held[h] = 0
    /\ \A h \in Handles : mailbox[h] = <<>>

\* C33 as claimed: no entry is leaked: once every process is killed, every
\* delivered signal is freed and every capability of the clients is freed,
\* the store holds no entries (nothing is left to run, so what the store
\* holds then it holds for ever).
NoLeakAtQuiescence == Quiescent => entries = {}

----------------------------------------------------------------------------
(* The link list of a dead entry *)

\* Thread t has called kill(h) and the call has returned.
KillReturned(t, h) ==
    /\ race.thread[t].op = "kill"
    /\ race.thread[t].h = h
    /\ race.thread[t].pc = "done"

\* Thread t is in the kill(h) whose swap made h dead.
KillDrains(t, h) ==
    /\ race.thread[t].op = "kill"
    /\ race.thread[t].h = h
    /\ race.thread[t].swapped
    /\ race.thread[t].pc # "done"

\* C34 as claimed: a dead entry has no links: in every state after a call
\* of kill(h) has returned the link list of h is empty, and a link of h
\* made later leaves it empty.
DeadHasNoLinks ==
    \A h \in entries :
        /\ (Alone /\ ~is_alive[h]) => linked[h] = <<>>
        /\ (\E t \in Threads : KillReturned(t, h)) => linked[h] = <<>>

\* C34 as amended: when h is dead and the kill(h) whose swap made it dead
\* has returned, the link list of h is empty and stays empty, whatever
\* calls of link(h, o) and kill(h) are made at the same time or later; a
\* kill(h) that found h dead may return before that kill has drained the
\* list.
DeadHasNoLinksOnceDrained ==
    \A h \in entries :
        (/\ ~is_alive[h]
         /\ ~panicked
         /\ \A t \in Threads : ~KillDrains(t, h))
            => linked[h] = <<>>

\* Entry h had links when one thread killed it; another thread linked it
\* to an object after that, was answered with the Unlink at once, and the
\* list is empty.
DeadHasNoLinksOnceDrainedWitness ==
    \E h \in entries, s, t \in Threads :
        /\ race.start.linked[h] # <<>>
        /\ KillReturned(s, h)
        /\ race.thread[s].swapped
        /\ race.thread[t].op = "link"
        /\ race.thread[t].h = h
        /\ race.thread[t].pc = "done"
        /\ \E i \in DOMAIN race.delivered :
              /\ race.delivered[i].by = t
              /\ race.delivered[i].sig = SigUnlink(h)
        /\ linked[h] = <<>>

----------------------------------------------------------------------------
(* The order of the messages of one sender *)

\* The places of the log where thread t called on_signal of entry h with
\* its message number n.
SentAt(t, h, n) ==
    {i \in DOMAIN race.delivered :
        /\ race.delivered[i].by = t
        /\ race.delivered[i].h = h
        /\ race.delivered[i].sig = SigData(n)}

\* Thread t has sent h all its messages and the last send has returned.
SentAll(t, h) ==
    /\ race.thread[t].op = "send"
    /\ race.thread[t].h = h
    /\ race.thread[t].pc = "done"
    /\ race.thread[t].signal = SigData(MaxSends - 1)

\* C35: per-sender order: the calls of on_signal that the sends of one
\* thread to one entry make are in the order the thread made the sends,
\* whatever the other threads do meanwhile, and each message is handed to
\* on_signal at most once; when the entry is still alive after the sends
\* have returned, every one of the messages was handed to on_signal.
PerSenderFifo ==
    \A t \in Threads, h \in Handles :
        /\ \A m, n \in 0 .. (MaxSends - 1) :
              m < n => \A i \in SentAt(t, h, m), j \in SentAt(t, h, n) : i < j
        /\ \A n \in 0 .. (MaxSends - 1) : Cardinality(SentAt(t, h, n)) <= 1
        /\ (SentAll(t, h) /\ h \in entries /\ is_alive[h] /\ ~panicked)
              => \A n \in 0 .. (MaxSends - 1) : SentAt(t, h, n) # {}

\* A thread has sent two messages to an entry, and between the two calls of
\* on_signal another thread called on_signal of the same entry.
PerSenderFifoWitness ==
    \E t \in Threads, h \in entries :
        /\ SentAll(t, h)
        /\ is_alive[h]
        /\ \E i \in SentAt(t, h, 0), j \in SentAt(t, h, 1) :
              \E k \in DOMAIN race.delivered :
                  /\ i < k
                  /\ k < j
                  /\ race.delivered[k].by # t
                  /\ race.delivered[k].h = h

----------------------------------------------------------------------------
(* The locks of the link lists *)

\* The entry whose lock thread t is about to take, if it is.
WantsLock(t) ==
    IF race.thread[t].pc \in {"kill_lock", "lock"} THEN race.thread[t].h
    ELSE IF race.thread[t].pc = "remove_lock" THEN race.thread[t].target
    ELSE NoHandle

\* Thread t waits for a lock that is held.
Blocked(t) ==
    /\ WantsLock(t) # NoHandle
    /\ race.lock[WantsLock(t)] # NoThread

\* The thread at the end of n steps from thread t, each from a thread that
\* waits to the thread that holds the lock it waits for.
WaitsFor(t, n) ==
    LET Hop[k \in 0 .. n] ==
            IF k = 0 THEN t
            ELSE IF Hop[k - 1] # NoThread /\ Blocked(Hop[k - 1])
                 THEN race.lock[WantsLock(Hop[k - 1])]
                 ELSE NoThread
    IN  Hop[n]

\* C36: the store's calls never deadlock: a lock is held by a thread that
\* is in a call (a call that returns holds none), no thread waits for a
\* lock it holds itself, and no threads wait for each other in a cycle:
\* from a waiting thread to the holder of its lock and on, one comes to a
\* thread that does not wait.  No call panics, and each is a bounded number
\* of steps that wait for nothing else: every call completes.
StoreNeverDeadlocks ==
    /\ ~panicked
    /\ \A h \in Handles :
          race.lock[h] # NoThread => InFlight(race.lock[h])
    /\ \A t \in Threads :
          /\ WaitsFor(t, MaxThreads) = NoThread
          /\ Len(race.thread[t].stack) <= MaxHandles

\* A dec_ref that removes entry s holds the lock of its link list and is
\* about to call dec_ref of the object o of a link, while another thread
\* holds the lock of the link list of o.
StoreNeverDeadlocksWitness ==
    \E u \in Threads, t \in Threads, s \in Handles, o \in Handles :
        /\ t # u
        /\ s # o
        /\ race.thread[u].op = "dec_ref"
        /\ race.thread[u].stack # <<>>
        /\ race.lock[s] = u
        /\ race.thread[u].pc = "fetch_sub"
        /\ race.thread[u].target = o
        /\ race.lock[o] = t

----------------------------------------------------------------------------
(* Registry::remove *)

\* C37: Registry::remove detaches and frees nothing: it returns the
\* capability the name had (None for a name that has none), leaves the name
\* without one and the other names as they were, calls no inc_ref and no
\* dec_ref and leaves every entry and count as it was; a get of a name
\* that was removed and not inserted again returns None; and
\* deregister_service reports Unavailable exactly for a name that has no
\* capability, changing nothing then, and else frees the one removed once.
RemoveDetaches ==
    /\ last.op = "Registry::remove" =>
          /\ ret = before.services[last.o]
          /\ services = [before.services EXCEPT ![last.o] = NoCap]
          /\ trace = <<>>
          /\ entries = before.entries
          /\ ref_count = before.ref_count
          /\ is_alive = before.is_alive
    /\ (last.op = "Registry::get" /\ inserted[last.o] = NoCap) =>
          /\ ret = NoCap
          /\ ref_count = before.ref_count
    /\ last.op = "deregister_service" =>
          /\ last.result = "Unavailable" <=> before.services[last.o] = NoCap
          /\ services = [before.services EXCEPT ![last.o] = NoCap]
          /\ last.result = "Unavailable" =>
                trace = <<>> /\ ref_count = before.ref_count
          /\ last.result = "Ok" =>
                /\ CapFrees = <<before.services[last.o].handle>>
                /\ Happened("dec_ref", before.services[last.o].handle) >= 1

\* A name was removed that had the only capability to an entry: the entry
\* is still there, with the count it had, and the name has nothing.
RemoveDetachesWitness ==
    /\ last.op = "Registry::remove"
    /\ ret # NoCap
    /\ ret.handle \in entries
    /\ ref_count[ret.handle] = 1
    /\ held[ret.handle] = 1
    /\ services[last.o] = NoCap
----------------------------------------------------------------------------
(* C38 *)

\* The last call of the builder was add_plugin, made by a finish hook, of a
\* type that add_plugin had built a plugin of before.
AddedWhileFinishing ==
    /\ called.op = "add_plugin"
    /\ called.was.hooks # <<>>
    /\ Running(called.was).hook = "finish"
    /\ \E p \in 1 .. called.was.made : called.was.type_of[p] = called.id

\* The plugins of type id that add_plugin built.
BuiltOf(id) == {p \in 1 .. builder.made : builder.type_of[p] = id}

\* The types that add_plugin built a plugin of.
TypesBuilt == {id \in PluginTypes : BuiltOf(id) # {}}

\* C38: an add_plugin that a finish hook makes for a type added before,
\* finished or not, is a no-op; no type has its finish hook invoked twice,
\* and the loop of run() goes round at most once per type.
EachTypeFinishedOnce ==
    /\ AddedWhileFinishing =>
          /\ builder.made = called.was.made
          /\ builder.built = called.was.built
          /\ builder.hooks = called.was.hooks
          /\ builder.plugins = called.was.plugins
    /\ \A id \in PluginTypes :
          Cardinality({p \in BuiltOf(id) : builder.finished[p] > 0}) <= 1
    /\ \A p \in Plugins : builder.finished[p] <= 1
    /\ run.iterations <= Cardinality(TypesBuilt)
----------------------------------------------------------------------------
(* C39 *)

\* The runners that add_service registered: those that spawn a task which
\* sends a confirmation.
ServiceRunners == {k \in DOMAIN builder.runners : builder.runners[k] # NoName}

\* The last call of the builder was add_service with a name that was taken.
RejectedService ==
    /\ called.op = "add_service"
    /\ called.id \in called.was.services

\* C39: run() never waits for a confirmation that is never sent. The number
\* of confirmations it awaits, service_num, is the number of runners that
\* add_service registered, whatever add_service calls were made; a call
\* with a name that is taken adds no runner and counts nothing; and once
\* the finish loop is left, with the tasks of the services scheduled
\* fairly, run() returns.
RunNeverWaitsInVain ==
    /\ [](builder.service_num = Cardinality(ServiceRunners))
    /\ [](RejectedService =>
            /\ builder.service_num = called.was.service_num
            /\ builder.runners = called.was.runners
            /\ builder.services = called.was.services)
    /\ [](run.pc \in {"wait", "returned"} =>
            run.i + Len(tasks.started)
                + Cardinality({k \in ServiceRunners : tasks.at[k] # "started"})
                    = builder.service_num)
    /\ (run.pc = "runners") ~> (run.pc = "returned")

\* run returned after it received the confirmation of its one service; the
\* last call of the builder, made by a finish hook, was an add_service with
\* the name of that service, which was rejected.
RunNeverWaitsInVainWitness ==
    /\ run.pc = "returned"
    /\ RejectedService
    /\ builder.service_num = 1
    /\ run.i = 1
    /\ tasks.registry[called.id] # 0
====
